---- MODULE Spec2Model ----
(***************************************************************************)
(* digisurf: a terminal waveform viewer.  The module models the waveform   *)
(* data loaded from a VCD file, the time-series queries of AppState, the   *)
(* view navigation keys of App::handle_normal_mode, the mouse handler and  *)
(* the goto / zoom / marker commands.                                      *)
(***************************************************************************)
EXTENDS Integers, Sequences, FiniteSets, TLC

\* ------------------------------------------------------------------ bounds
\* longest change log drawn for the query specification
MaxLogLen == 3
\* largest time stamp drawn for the query specification
MaxQTime == 2
\* largest max_time drawn for the navigation specification
MaxNavTime == 40
\* the last time stamps of the two VCD files of the application specifications
TraceEndA == 40
TraceEndB == 12
\* layout.waveform.width: the columns of the waveform area of the terminal
WaveformWidth == 10
\* the mouse events of one behaviour
MaxMouseEvents == 6
\* the lines that follow the declarations in the files handed to the parser
MaxBodyLen == 5

\* layout.waveform.height: the rows of the waveform area of the terminal
WaveformHeight == 2
\* the longest command line typed and the most command lines executed
MaxInputLen == 2
MaxHistory == 2
\* the lines in front of the last declaration of the scope specification
MaxScopeLines == 5
\* the longest identifier of the identifier specification
MaxIdLen == 2
\* the longest bit string of a vector change and of a rendered Bus value
MaxBits == 5
\* the longest string of hexadecimal digits handed to the formatter
MaxHexLen == 3

\* ------------------------------------------------------------------- state
VARIABLES
    signals,            \* waveform_data.signals
    values,             \* waveform_data.values: signal name -> change log
    max_time,           \* waveform_data.max_time
    displayed_signals,  \* AppState.displayed_signals
    selected_signal,    \* AppState.selected_signal
    time_start,         \* AppState.time_start
    time_range,         \* AppState.time_range
    primary_marker,     \* AppState.primary_marker   (Option<u64>)
    secondary_marker,   \* AppState.secondary_marker (Option<u64>)
    saved_markers,      \* AppState.saved_markers    (Vec<Marker>)
    drag_start,         \* AppState.drag_start       (Option<(u16, u64)>)
    drag_current,       \* AppState.drag_current     (Option<(u16, u64)>)
    is_dragging,        \* AppState.is_dragging
    signal_scroll_offset, \* AppState.signal_scroll_offset
    fuzzy,              \* AppState.fuzzy_finder_state
    mode,               \* AppState.mode
    command_state,      \* AppState.command_mode_state
    gesture,            \* history: the mouse events since the last left press
    mouse_events,       \* history: the number of mouse events so far
    last_op             \* the last operation invoked and what it returned

vars == <<signals, values, max_time, displayed_signals, selected_signal,
          time_start, time_range, primary_marker, secondary_marker,
          saved_markers, drag_start, drag_current, is_dragging,
          signal_scroll_offset, fuzzy, mode, command_state, gesture,
          mouse_events, last_op>>

view_vars == <<time_start, time_range>>
marker_vars == <<primary_marker, secondary_marker, saved_markers>>
drag_vars == <<drag_start, drag_current, is_dragging, gesture, mouse_events>>
data_vars == <<signals, values, max_time>>
list_vars == <<displayed_signals, selected_signal, signal_scroll_offset,
               fuzzy>>
ui_vars == <<mode, command_state>>

\* ------------------------------------------------------- Option<T>, helpers
None == <<>>
Some(x) == <<x>>

Contains(seq, x) == \E i \in 1..Len(seq) : seq[i] = x

Min2(a, b) == IF a < b THEN a ELSE b
Max2(a, b) == IF a > b THEN a ELSE b
\* u64::saturating_sub
SatSub(a, b) == IF a > b THEN a - b ELSE 0

\* ------------------------------------------------------- parsers/types.rs
\* enum Value { V0, V1, VX, VZ }
Value == {"V0", "V1", "VX", "VZ"}
\* enum WaveValue { Binary(Value), Bus(String) }; strings are character
\* sequences
Binary(v) == [kind |-> "Binary", bin |-> v, bus |-> <<>>]
Bus(s) == [kind |-> "Bus", bin |-> "", bus |-> s]

\* #[derive(Debug)] on Value: the variant name
DebugValue(v) ==
    CASE v = "V0" -> <<"V", "0">>
      [] v = "V1" -> <<"V", "1">>
      [] v = "VX" -> <<"V", "X">>
      [] v = "VZ" -> <<"V", "Z">>

\* ------------------------------------------------- fuzzy_finder/state.rs
\* FuzzyFinderState::default(); the query stays empty, so that the filtered
\* list is the list of all signals
FuzzyDefault == [all_signals |-> <<>>, selected_signals |-> {},
                 list_selected |-> None]

\* FuzzyFinderState::update_filtered_signals with an empty query: the
\* filtered list is all_signals and the list selection is moved inside it
update_filtered_signals(f) ==
    [f EXCEPT !.list_selected =
        IF f.list_selected # None
        THEN (IF f.list_selected[1] >= Len(f.all_signals)
              THEN (IF f.all_signals = <<>> THEN None ELSE Some(0))
              ELSE f.list_selected)
        ELSE (IF f.all_signals # <<>> THEN Some(0) ELSE None)]

\* FuzzyFinderState::set_signals
set_signals(f, sigs, displayed) ==
    LET g == update_filtered_signals(
                 [f EXCEPT !.all_signals = sigs,
                           !.selected_signals =
                               {displayed[i] : i \in 1..Len(displayed)}])
    IN IF g.all_signals # <<>> THEN [g EXCEPT !.list_selected = Some(0)]
       ELSE g

\* ---------------------------------------------------- command_mode/state.rs
\* CommandModeState::default()
CommandDefault ==
    [input_buffer |-> <<>>, cursor_position |-> 0, history |-> <<>>,
     history_index |-> None, result_message |-> None,
     result_is_error |-> FALSE]

\* String::insert
InsertAt(str, idx, c) ==
    SubSeq(str, 1, idx) \o <<c>> \o SubSeq(str, idx + 1, Len(str))
\* String::remove
RemoveAt(str, idx) ==
    SubSeq(str, 1, idx) \o SubSeq(str, idx + 2, Len(str))

\* CommandModeState::insert
insert(cs, c) ==
    [cs EXCEPT !.input_buffer = InsertAt(@, cs.cursor_position, c),
               !.cursor_position = @ + 1]

\* CommandModeState::delete
delete(cs) ==
    IF cs.cursor_position < Len(cs.input_buffer)
    THEN [cs EXCEPT !.input_buffer = RemoveAt(@, cs.cursor_position)]
    ELSE cs

\* CommandModeState::backspace
backspace(cs) ==
    IF cs.cursor_position > 0
    THEN [cs EXCEPT !.cursor_position = @ - 1,
                    !.input_buffer = RemoveAt(@, cs.cursor_position - 1)]
    ELSE cs

\* CommandModeState::move_cursor_left
move_cursor_left(cs) ==
    IF cs.cursor_position > 0 THEN [cs EXCEPT !.cursor_position = @ - 1]
    ELSE cs

\* variant of move_cursor_right that does not look at the length
move_cursor_right_unbounded(cs) ==
    [cs EXCEPT !.cursor_position = @ + 1]

\* CommandModeState::move_cursor_right
move_cursor_right(cs) ==
    IF cs.cursor_position < Len(cs.input_buffer)
    THEN [cs EXCEPT !.cursor_position = @ + 1]
    ELSE cs

\* CommandModeState::move_cursor_end
move_cursor_end(cs) == [cs EXCEPT !.cursor_position = Len(cs.input_buffer)]

\* CommandModeState::move_cursor_start
move_cursor_start(cs) == [cs EXCEPT !.cursor_position = 0]

\* CommandModeState::clear
clear(cs) ==
    [cs EXCEPT !.input_buffer = <<>>, !.cursor_position = 0,
               !.history_index = None, !.result_message = None,
               !.result_is_error = FALSE]

\* CommandModeState::add_to_history
add_to_history(cs) ==
    IF cs.input_buffer # <<>>
    THEN [cs EXCEPT !.history = Append(@, cs.input_buffer),
                    !.history_index = None]
    ELSE cs

\* the entry at a 0-based index becomes the input line
RecallHistory(cs, index) ==
    [cs EXCEPT !.history_index = Some(index),
               !.input_buffer = cs.history[index + 1],
               !.cursor_position = Len(cs.history[index + 1])]

\* CommandModeState::previous_history
previous_history(cs) ==
    IF cs.history_index # None
    THEN (IF cs.history_index[1] > 0
          THEN RecallHistory(cs, cs.history_index[1] - 1)
          ELSE cs)
    ELSE IF cs.history # <<>> THEN RecallHistory(cs, Len(cs.history) - 1)
    ELSE cs

\* CommandModeState::next_history
next_history(cs) ==
    IF cs.history_index # None
    THEN (IF cs.history_index[1] < Len(cs.history) - 1
          THEN RecallHistory(cs, cs.history_index[1] + 1)
          ELSE cs)
    ELSE IF cs.history # <<>> THEN RecallHistory(cs, 0)
    ELSE cs

\* no left press in the waveform area is pending
NoGesture == [press |-> <<>>, far |-> FALSE, last |-> <<>>, left |-> FALSE]

NoOp == [op |-> "none", sig |-> "", t |-> 0, args |-> <<>>, ok |-> TRUE,
         out |-> <<>>]

\* ---------------------------------------------------- parsers/parse_fns.rs
HexDigits == <<"0", "1", "2", "3", "4", "5", "6", "7", "8", "9",
               "A", "B", "C", "D", "E", "F">>

\* the fold of one chunk of bits: (acc << 1) | bit
RECURSIVE FoldBits(_, _)
FoldBits(bits, acc) ==
    IF bits = <<>> THEN acc
    ELSE FoldBits(Tail(bits), acc * 2 + (IF Head(bits) = "1" THEN 1 ELSE 0))

\* chunks(4) of the padded string, each mapped to an uppercase hex digit
RECURSIVE HexOfChunks(_)
HexOfChunks(padded) ==
    IF padded = <<>> THEN <<>>
    ELSE <<HexDigits[FoldBits(SubSeq(padded, 1, 4), 0) + 1]>>
         \o HexOfChunks(SubSeq(padded, 5, Len(padded)))

AllBinaryDigits(str) == \A i \in 1..Len(str) : str[i] \in {"0", "1"}

\* variant of parse_binary_to_hex that pads on the right
parse_binary_to_hex_pad_right(bin_str) ==
    IF bin_str = <<>> THEN [ok |-> TRUE, hex |-> <<>>]
    ELSE IF ~AllBinaryDigits(bin_str) THEN [ok |-> FALSE, hex |-> <<>>]
    ELSE LET padding == (4 - (Len(bin_str) % 4)) % 4
             padded == bin_str \o [i \in 1..padding |-> "0"]
         IN [ok |-> TRUE, hex |-> HexOfChunks(padded)]

\* parse_binary_to_hex: Ok(hex) or Err
parse_binary_to_hex(bin_str) ==
    IF bin_str = <<>> THEN [ok |-> TRUE, hex |-> <<>>]
    ELSE IF ~AllBinaryDigits(bin_str) THEN [ok |-> FALSE, hex |-> <<>>]
    ELSE LET padding == (4 - (Len(bin_str) % 4)) % 4
             padded == [i \in 1..padding |-> "0"] \o bin_str
         IN [ok |-> TRUE, hex |-> HexOfChunks(padded)]

\* --------------------------------- parsers/types.rs: the radix formatter
\* str::trim_start_matches with a pattern of two characters: the pattern is
\* removed from the front as often as it occurs there
RECURSIVE trim_start_matches(_, _)
trim_start_matches(str, pat) ==
    IF Len(str) >= 2 /\ SubSeq(str, 1, 2) = pat
    THEN trim_start_matches(SubSeq(str, 3, Len(str)), pat)
    ELSE str

\* str::trim_start_matches('0')
RECURSIVE TrimLeadingZeros(_)
TrimLeadingZeros(str) ==
    IF str # <<>> /\ Head(str) = "0" THEN TrimLeadingZeros(Tail(str))
    ELSE str

\* the case conversion of the x and z characters
XZCase(c, uppercase) ==
    CASE c \in {"x", "X"} -> (IF uppercase THEN "X" ELSE "x")
      [] c \in {"z", "Z"} -> (IF uppercase THEN "Z" ELSE "z")
      [] OTHER -> c

\* the value of a hexadecimal digit of either case, -1 for another character
HexDigitValue(c) ==
    CASE c = "0" -> 0 [] c = "1" -> 1 [] c = "2" -> 2 [] c = "3" -> 3
      [] c = "4" -> 4 [] c = "5" -> 5 [] c = "6" -> 6 [] c = "7" -> 7
      [] c = "8" -> 8 [] c = "9" -> 9
      [] c \in {"a", "A"} -> 10 [] c \in {"b", "B"} -> 11
      [] c \in {"c", "C"} -> 12 [] c \in {"d", "D"} -> 13
      [] c \in {"e", "E"} -> 14 [] c \in {"f", "F"} -> 15
      [] OTHER -> 0 - 1

\* the four bits of the match arms of format_string_as_binary
NibbleBits(v) ==
    <<IF (v \div 8) % 2 = 1 THEN "1" ELSE "0",
      IF (v \div 4) % 2 = 1 THEN "1" ELSE "0",
      IF (v \div 2) % 2 = 1 THEN "1" ELSE "0",
      IF v % 2 = 1 THEN "1" ELSE "0">>

\* the loop of format_string_as_binary over the characters
RECURSIVE ExpandDigits(_, _)
ExpandDigits(str, uppercase) ==
    IF str = <<>> THEN <<>>
    ELSE LET c == Head(str)
             piece == IF HexDigitValue(c) >= 0 THEN NibbleBits(HexDigitValue(c))
                      ELSE IF c \in {"x", "X", "z", "Z"}
                           THEN <<XZCase(c, uppercase)>>
                      ELSE <<>>
         IN piece \o ExpandDigits(Tail(str), uppercase)

\* WaveValue::format_string_as_binary
format_string_as_binary(str, uppercase) ==
    IF \A i \in 1..Len(str) : str[i] \in {"0", "1", "x", "X", "z", "Z"}
    THEN [i \in 1..Len(str) |-> XZCase(str[i], uppercase)]
    ELSE LET t == trim_start_matches(trim_start_matches(str, <<"0", "x">>),
                                     <<"0", "X">>)
             result == TrimLeadingZeros(ExpandDigits(t, uppercase))
         IN IF result = <<>> THEN <<"0">> ELSE result

\* the number denoted by a string of hexadecimal digits
RECURSIVE FoldHex(_, _)
FoldHex(str, acc) ==
    IF str = <<>> THEN acc
    ELSE FoldHex(Tail(str), acc * 16 + HexDigitValue(Head(str)))

\* u64::from_str_radix(str, 16): Err for the empty string, for a character
\* that is no hexadecimal digit and for a number of more than 64 bits
from_str_radix_16(str) ==
    IF \/ str = <<>>
       \/ \E i \in 1..Len(str) : HexDigitValue(str[i]) < 0
       \/ Len(TrimLeadingZeros(str)) > 16
    THEN [ok |-> FALSE, num |-> 0]
    ELSE [ok |-> TRUE, num |-> FoldHex(str, 0)]

\* u64::to_string
RECURSIVE to_string(_)
to_string(n) ==
    IF n < 10 THEN <<HexDigits[n + 1]>>
    ELSE to_string(n \div 10) \o <<HexDigits[(n % 10) + 1]>>

\* WaveValue::format_string_as_decimal
format_string_as_decimal(str, uppercase) ==
    LET t == trim_start_matches(trim_start_matches(trim_start_matches(
             trim_start_matches(trim_start_matches(trim_start_matches(
             trim_start_matches(str,
                 <<"0", "x">>), <<"0", "X">>), <<"0", "b">>), <<"0", "B">>),
                 <<"0", "o">>), <<"0", "O">>), <<"0", "d">>)
        r == from_str_radix_16(t)
    IN IF (\A i \in 1..Len(t) : t[i] \notin {"x", "X", "z", "Z"}) /\ r.ok
       THEN to_string(r.num)
       ELSE [i \in 1..Len(t) |-> XZCase(t[i], uppercase)]

\* ---------------------------------------------------------- parsers/vcd.rs
\* A line of a VCD file after trimming, as the parser classifies it: the
\* keyword it starts with and, for a line that its line parser accepts, the
\* fields that parser returns.
Line(k) == [k |-> k, id |-> "", name |-> "", time |-> 0, value |-> Binary("V0")]
VarLine(id, name) == [Line("$var") EXCEPT !.id = id, !.name = name]
ScopeLine(name) == [Line("$scope") EXCEPT !.name = name]
TimeLine(t) == [Line("#") EXCEPT !.time = t]
ChangeLine(value, id) == [Line("change") EXCEPT !.value = value, !.id = id]

\* IndexMap::insert on a sequence of <<key, value>> pairs: a known key keeps
\* its position
RECURSIVE IndexMapInsert(_, _, _)
IndexMapInsert(map, key, val) ==
    IF map = <<>> THEN << <<key, val>> >>
    ELSE IF Head(map)[1] = key THEN << <<key, val>> >> \o Tail(map)
    ELSE <<Head(map)>> \o IndexMapInsert(Tail(map), key, val)

IndexMapHas(map, key) == \E i \in 1..Len(map) : map[i][1] = key
IndexMapGet(map, key) ==
    map[CHOOSE i \in 1..Len(map) : map[i][1] = key][2]

\* parse_var_declaration on a line `$var <type> <width> <id> <name> $end`:
\* one_of takes one identifier character and white space has to follow it
parse_var_declaration(line) ==
    [ok |-> Len(line.id) = 1, id |-> line.id, name |-> line.name]

\* variant of FullName that starts with the innermost scope
RECURSIVE FullName_innermost_first(_, _)
FullName_innermost_first(current_scope, name) ==
    IF current_scope = <<>> THEN name
    ELSE current_scope[Len(current_scope)] \o "."
         \o FullName_innermost_first(
                SubSeq(current_scope, 1, Len(current_scope) - 1), name)

\* the scope names followed by '.' each, then the variable name
RECURSIVE FullName(_, _)
FullName(current_scope, name) ==
    IF current_scope = <<>> THEN name
    ELSE Head(current_scope) \o "." \o FullName(Tail(current_scope), name)

ParserInit ==
    [id_to_name |-> <<>>, current_time |-> 0, values |-> <<>>,
     in_definitions |-> TRUE, in_dumpvars |-> FALSE, current_scope |-> <<>>]

\* variant of PushValue that puts the new entry in front of the log
PushValue_front(vals, name, entry) ==
    IF name \in DOMAIN vals
    THEN [vals EXCEPT ![name] = <<entry>> \o @]
    ELSE [n \in DOMAIN vals \cup {name} |->
            IF n = name THEN <<entry>> ELSE vals[n]]

\* values.entry(name).or_insert_with(Vec::new).push(entry)
PushValue(vals, name, entry) ==
    IF name \in DOMAIN vals
    THEN [vals EXCEPT ![name] = Append(@, entry)]
    ELSE [n \in DOMAIN vals \cup {name} |->
            IF n = name THEN <<entry>> ELSE vals[n]]

\* variant of the loop body that reads time stamps before $enddefinitions too
ParseLine_times_anywhere(ps, line) ==
    CASE line.k = "$var" ->
            IF parse_var_declaration(line).ok
            THEN [ps EXCEPT !.id_to_name =
                    IndexMapInsert(@, line.id,
                                   FullName(ps.current_scope, line.name))]
            ELSE ps
      [] line.k = "$scope" ->
            [ps EXCEPT !.current_scope = Append(@, line.name)]
      [] line.k = "$upscope" ->
            IF ps.current_scope # <<>>
            THEN [ps EXCEPT !.current_scope = SubSeq(@, 1, Len(@) - 1)]
            ELSE ps
      [] line.k = "$enddefinitions" -> [ps EXCEPT !.in_definitions = FALSE]
      [] line.k = "$dumpvars" -> [ps EXCEPT !.in_dumpvars = TRUE]
      [] line.k = "$end" /\ ps.in_dumpvars -> [ps EXCEPT !.in_dumpvars = FALSE]
      [] line.k = "#" ->
            [ps EXCEPT !.current_time = line.time]
      [] ~ps.in_definitions /\ line.k = "change" ->
            IF IndexMapHas(ps.id_to_name, line.id)
            THEN [ps EXCEPT !.values =
                    PushValue(@, IndexMapGet(ps.id_to_name, line.id),
                              <<ps.current_time, line.value>>)]
            ELSE ps
      [] OTHER -> ps

\* the body of the loop over the lines
ParseLine(ps, line) ==
    CASE line.k = "$var" ->
            IF parse_var_declaration(line).ok
            THEN [ps EXCEPT !.id_to_name =
                    IndexMapInsert(@, line.id,
                                   FullName(ps.current_scope, line.name))]
            ELSE ps
      [] line.k = "$scope" ->
            [ps EXCEPT !.current_scope = Append(@, line.name)]
      [] line.k = "$upscope" ->
            IF ps.current_scope # <<>>
            THEN [ps EXCEPT !.current_scope = SubSeq(@, 1, Len(@) - 1)]
            ELSE ps
      [] line.k = "$enddefinitions" -> [ps EXCEPT !.in_definitions = FALSE]
      [] line.k = "$dumpvars" -> [ps EXCEPT !.in_dumpvars = TRUE]
      [] line.k = "$end" /\ ps.in_dumpvars -> [ps EXCEPT !.in_dumpvars = FALSE]
      [] ~ps.in_definitions /\ line.k = "#" ->
            [ps EXCEPT !.current_time = line.time]
      [] ~ps.in_definitions /\ line.k = "change" ->
            IF IndexMapHas(ps.id_to_name, line.id)
            THEN [ps EXCEPT !.values =
                    PushValue(@, IndexMapGet(ps.id_to_name, line.id),
                              <<ps.current_time, line.value>>)]
            ELSE ps
      [] OTHER -> ps

RECURSIVE ParseLines(_, _)
ParseLines(ps, lines) ==
    IF lines = <<>> THEN ps
    ELSE ParseLines(ParseLine(ps, Head(lines)), Tail(lines))

\* the pass over the parsed values that converts Bus strings of 0s and 1s
ConvertValue(value) ==
    IF value.kind = "Bus" /\ AllBinaryDigits(value.bus)
    THEN LET r == parse_binary_to_hex(value.bus)
         IN IF r.ok THEN Bus(r.hex) ELSE value
    ELSE value

ConvertValues(vals) ==
    [n \in DOMAIN vals |->
        [i \in 1..Len(vals[n]) |-> <<vals[n][i][1], ConvertValue(vals[n][i][2])>>]]

\* parse_vcd_file: Err when the file cannot be opened, else the WaveformData
parse_vcd_file(file) ==
    IF ~file.readable THEN [ok |-> FALSE]
    ELSE LET ps == ParseLines(ParserInit, file.lines)
         IN [ok |-> TRUE,
             signals |-> [i \in 1..Len(ps.id_to_name) |-> ps.id_to_name[i][2]],
             values |-> ConvertValues(ps.values),
             max_time |-> ps.current_time]

\* ---------------------------------------------------------------- state.rs
\* variant of the scan below that stops one entry early (at the first entry
\* whose time is not before marker_time)
RECURSIVE ScanValueAt_strict(_, _, _, _)
ScanValueAt_strict(vals, i, marker_time, last_value) ==
    IF i > Len(vals) THEN last_value
    ELSE IF vals[i][1] >= marker_time THEN last_value
    ELSE ScanValueAt_strict(vals, i + 1, marker_time, Some(vals[i][2]))

\* the forward scan of get_value_at_marker: stops at the first entry whose
\* time is greater than marker_time
RECURSIVE ScanValueAt(_, _, _, _)
ScanValueAt(vals, i, marker_time, last_value) ==
    IF i > Len(vals) THEN last_value
    ELSE IF vals[i][1] > marker_time THEN last_value
    ELSE ScanValueAt(vals, i + 1, marker_time, Some(vals[i][2]))

get_value_at_marker(signal, marker_time) ==
    IF signal \in DOMAIN values
    THEN ScanValueAt(values[signal], 1, marker_time, None)
    ELSE None

\* variant of values_equal that compares the variants only
values_equal_kind_only(v1, v2) == v1.kind = v2.kind

values_equal(v1, v2) ==
    CASE v1.kind = "Binary" /\ v2.kind = "Binary" -> v1.bin = v2.bin
      [] v1.kind = "Bus" /\ v2.kind = "Bus" -> v1.bus = v2.bus
      [] OTHER -> FALSE

format_transition(before, after) ==
    CASE before.kind = "Binary" /\ after.kind = "Binary" ->
            DebugValue(before.bin) \o <<"-", ">">> \o DebugValue(after.bin)
      [] before.kind = "Bus" /\ after.kind = "Bus" ->
            before.bus \o <<"-", ">">> \o after.bus
      [] OTHER -> <<"?", "?", "?">>

\* the loop of get_transition_at_marker over the indices of the log
RECURSIVE ScanTransition(_, _, _)
ScanTransition(vals, i, marker_time) ==
    IF i > Len(vals) THEN None
    ELSE IF vals[i][1] = marker_time /\ i > 1
            /\ ~values_equal(vals[i - 1][2], vals[i][2])
         THEN Some(format_transition(vals[i - 1][2], vals[i][2]))
         ELSE ScanTransition(vals, i + 1, marker_time)

get_transition_at_marker(signal, marker_time) ==
    IF signal \in DOMAIN values
    THEN ScanTransition(values[signal], 1, marker_time)
    ELSE None

\* the first loop of get_visible_values: the last entry before the view,
\* scanning until the first entry that is not before time_start
RECURSIVE ScanLastBefore(_, _, _)
ScanLastBefore(vals, i, last_before_view) ==
    IF i > Len(vals) THEN last_before_view
    ELSE IF vals[i][1] < time_start
         THEN ScanLastBefore(vals, i + 1, Some(vals[i]))
         ELSE last_before_view

\* variant of the window test with an inclusive right edge
InView_inclusive(e) == e[1] >= time_start /\ e[1] <= time_start + time_range

InView(e) == e[1] >= time_start /\ e[1] < time_start + time_range

\* variant of get_visible_values that carries the last entry before the view
\* with its own time stamp
get_visible_values_unadjusted(signal) ==
    IF ~Contains(displayed_signals, signal) THEN <<>>
    ELSE IF signal \in DOMAIN values
    THEN LET vals == values[signal]
             last_before_view == ScanLastBefore(vals, 1, None)
             carried == IF last_before_view # None
                        THEN << last_before_view[1] >>
                        ELSE <<>>
         IN carried \o SelectSeq(vals, InView)
    ELSE <<>>

get_visible_values(signal) ==
    IF ~Contains(displayed_signals, signal) THEN <<>>
    ELSE IF signal \in DOMAIN values
    THEN LET vals == values[signal]
             last_before_view == ScanLastBefore(vals, 1, None)
             carried == IF last_before_view # None
                        THEN << <<time_start, last_before_view[1][2]>> >>
                        ELSE <<>>
         IN carried \o SelectSeq(vals, InView)
    ELSE <<>>

\* ---------------------------------------------- the query specifications
QSignal == "sig1"
\* the change logs the queries are applied to: every sequence of up to
\* MaxLogLen entries over the given values, in any order of the times
LogsOver(vals) ==
    UNION {[1..n -> (0..MaxQTime) \X vals] : n \in 0..MaxLogLen}

\* a waveform with one signal that has the change log `log`, or an empty
\* waveform (the signal is unknown to the mapping)
InitQueryData(logs) ==
    /\ signals = <<QSignal>>
    /\ \/ values = <<>>
       \/ \E log \in logs : values = [s \in {QSignal} |-> log]
    /\ max_time = MaxQTime
    /\ selected_signal = 0
    /\ primary_marker = None
    /\ secondary_marker = None
    /\ saved_markers = <<>>
    /\ drag_start = None
    /\ drag_current = None
    /\ is_dragging = FALSE
    /\ mode = "Normal"
    /\ command_state = CommandDefault
    /\ gesture = NoGesture
    /\ mouse_events = 0
    /\ signal_scroll_offset = 0
    /\ fuzzy = FuzzyDefault
    /\ last_op = NoOp

\* get_visible_values over every log, window and display selection
InitVisible ==
    /\ InitQueryData(LogsOver({Binary("V0"), Binary("V1")}))
    /\ displayed_signals \in {<<>>, <<QSignal>>}
    /\ time_start \in 0..(MaxQTime + 1)
    /\ time_range \in 0..2

QueryVisible ==
    /\ last_op' = [NoOp EXCEPT !.op = "get_visible_values", !.sig = QSignal,
                               !.out = get_visible_values(QSignal)]
    /\ UNCHANGED <<ui_vars, data_vars, list_vars, view_vars, marker_vars, drag_vars>>

NextVisible == QueryVisible

SpecVisible == InitVisible /\ [][NextVisible]_vars

\* get_value_at_marker and get_transition_at_marker over every log, with
\* Binary and Bus values mixed
InitValueAt ==
    /\ InitQueryData(LogsOver({Binary("V0"), Binary("V1"), Bus(<<"A">>)}))
    /\ displayed_signals = <<QSignal>>
    /\ time_start = 0
    /\ time_range = MaxQTime

QueryValueAt ==
    \E t \in 0..(MaxQTime + 1) :
        /\ last_op' = [NoOp EXCEPT !.op = "get_value_at_marker",
                                   !.sig = QSignal, !.t = t,
                                   !.out = get_value_at_marker(QSignal, t)]
        /\ UNCHANGED <<ui_vars, data_vars, list_vars, view_vars, marker_vars, drag_vars>>

QueryTransitionAt ==
    \E t \in 0..(MaxQTime + 1) :
        /\ last_op' = [NoOp EXCEPT !.op = "get_transition_at_marker",
                                   !.sig = QSignal, !.t = t,
                                   !.out = get_transition_at_marker(QSignal, t)]
        /\ UNCHANGED <<ui_vars, data_vars, list_vars, view_vars, marker_vars, drag_vars>>

NextValueAt == QueryValueAt \/ QueryTransitionAt

SpecValueAt == InitValueAt /\ [][NextValueAt]_vars

\* ----------------------------------------------- app.rs: handle_normal_mode
KeyOp(name) == [NoOp EXCEPT !.op = name]

\* constants.rs: the rows of one signal
WAVEFORM_HEIGHT == 2

\* App::adjust_scroll_if_needed: the scroll offset for a new selection
adjust_scroll_if_needed(selected, scroll_offset) ==
    LET visible_signals == WaveformHeight \div WAVEFORM_HEIGHT
        scrolled_up == IF selected < scroll_offset THEN selected
                       ELSE scroll_offset
        last_visible == scrolled_up + visible_signals - 1
    IN IF visible_signals = 0 THEN scroll_offset
       ELSE IF selected > last_visible
            THEN SatSub(selected, visible_signals - 1)
            ELSE scrolled_up

\* an Up or Down key: the selection in front of the key is kept
SelectOp(name) == [NoOp EXCEPT !.op = name, !.t = selected_signal]

\* keybindings.up without Shift
SelectUp ==
    /\ mode = "Normal"
    /\ IF displayed_signals # <<>> /\ selected_signal > 0
       THEN /\ selected_signal' = selected_signal - 1
            /\ signal_scroll_offset' =
                 adjust_scroll_if_needed(selected_signal - 1,
                                         signal_scroll_offset)
       ELSE UNCHANGED <<selected_signal, signal_scroll_offset>>
    /\ last_op' = SelectOp("select_up")
    /\ UNCHANGED <<ui_vars, data_vars, displayed_signals, fuzzy, view_vars,
                   marker_vars, drag_vars>>

\* variant of the Down key that wraps around at the last signal
SelectDown_wrapping ==
    /\ mode = "Normal"
    /\ IF displayed_signals # <<>>
       THEN /\ selected_signal' =
                 (selected_signal + 1) % Len(displayed_signals)
            /\ signal_scroll_offset' =
                 adjust_scroll_if_needed(selected_signal', signal_scroll_offset)
       ELSE UNCHANGED <<selected_signal, signal_scroll_offset>>
    /\ last_op' = SelectOp("select_down")
    /\ UNCHANGED <<ui_vars, data_vars, displayed_signals, fuzzy, view_vars,
                   marker_vars, drag_vars>>

\* keybindings.down without Shift
SelectDown ==
    /\ mode = "Normal"
    /\ IF /\ displayed_signals # <<>>
          /\ selected_signal < Len(displayed_signals) - 1
       THEN /\ selected_signal' = selected_signal + 1
            /\ signal_scroll_offset' =
                 adjust_scroll_if_needed(selected_signal + 1,
                                         signal_scroll_offset)
       ELSE UNCHANGED <<selected_signal, signal_scroll_offset>>
    /\ last_op' = SelectOp("select_down")
    /\ UNCHANGED <<ui_vars, data_vars, displayed_signals, fuzzy, view_vars,
                   marker_vars, drag_vars>>

\* Swap(list, i, j): Vec::swap on positions i and j, counted from 1
Swap(list, i, j) == [list EXCEPT ![i] = list[j], ![j] = list[i]]

\* variant of Shift+Up that moves the signal and leaves the selection
MoveUp_selection_stays ==
    /\ mode = "Normal"
    /\ IF displayed_signals # <<>> /\ selected_signal > 0
       THEN displayed_signals' =
              Swap(displayed_signals, selected_signal + 1, selected_signal)
       ELSE UNCHANGED displayed_signals
    /\ last_op' = [SelectOp("move_up") EXCEPT !.args = displayed_signals]
    /\ UNCHANGED <<ui_vars, data_vars, selected_signal, signal_scroll_offset,
                   fuzzy, view_vars, marker_vars, drag_vars>>

\* keybindings.up with Shift: the selected signal moves one place up
MoveUp ==
    /\ mode = "Normal"
    /\ IF displayed_signals # <<>> /\ selected_signal > 0
       THEN /\ displayed_signals' =
                 Swap(displayed_signals, selected_signal + 1, selected_signal)
            /\ selected_signal' = selected_signal - 1
            /\ signal_scroll_offset' =
                 adjust_scroll_if_needed(selected_signal - 1,
                                         signal_scroll_offset)
       ELSE UNCHANGED <<displayed_signals, selected_signal,
                        signal_scroll_offset>>
    /\ last_op' = [SelectOp("move_up") EXCEPT !.args = displayed_signals]
    /\ UNCHANGED <<ui_vars, data_vars, fuzzy, view_vars, marker_vars,
                   drag_vars>>

\* keybindings.down with Shift: the selected signal moves one place down
MoveDown ==
    /\ mode = "Normal"
    /\ IF /\ displayed_signals # <<>>
          /\ selected_signal < Len(displayed_signals) - 1
       THEN /\ displayed_signals' =
                 Swap(displayed_signals, selected_signal + 1,
                      selected_signal + 2)
            /\ selected_signal' = selected_signal + 1
            /\ signal_scroll_offset' =
                 adjust_scroll_if_needed(selected_signal + 1,
                                         signal_scroll_offset)
       ELSE UNCHANGED <<displayed_signals, selected_signal,
                        signal_scroll_offset>>
    /\ last_op' = [SelectOp("move_down") EXCEPT !.args = displayed_signals]
    /\ UNCHANGED <<ui_vars, data_vars, fuzzy, view_vars, marker_vars,
                   drag_vars>>

\* the rows of the mouse in the signal list, relative to
\* layout.signal_list.y; mouse_within_rect admits the row y + height
SignalRows == 0..WaveformHeight

\* variant of the click in the signal list that selects any row
SignalListClick_unchecked(row) ==
    LET clicked_signal_index ==
            row \div WAVEFORM_HEIGHT + signal_scroll_offset
    IN /\ selected_signal' = clicked_signal_index
       /\ signal_scroll_offset' =
            adjust_scroll_if_needed(clicked_signal_index,
                                    signal_scroll_offset)
       /\ last_op' = SelectOp("signal_list_click")
       /\ UNCHANGED <<ui_vars, data_vars, displayed_signals, fuzzy,
                      view_vars, marker_vars, drag_vars>>

\* handle_mouse: Down(Left) inside the signal list
SignalListClick(row) ==
    LET clicked_signal_index ==
            row \div WAVEFORM_HEIGHT + signal_scroll_offset
    IN /\ IF clicked_signal_index < Len(displayed_signals)
          THEN /\ selected_signal' = clicked_signal_index
               /\ signal_scroll_offset' =
                    adjust_scroll_if_needed(clicked_signal_index,
                                            signal_scroll_offset)
          ELSE UNCHANGED <<selected_signal, signal_scroll_offset>>
       /\ last_op' = SelectOp("signal_list_click")
       /\ UNCHANGED <<ui_vars, data_vars, displayed_signals, fuzzy,
                      view_vars, marker_vars, drag_vars>>

\* keybindings.left
PanLeft ==
    /\ time_start' = IF time_start > 0
                     THEN SatSub(time_start, time_range \div 4)
                     ELSE time_start
    /\ mode = "Normal"
    /\ last_op' = KeyOp("pan_left")
    /\ UNCHANGED <<ui_vars, data_vars, list_vars, time_range, marker_vars, drag_vars>>

\* variant of pan-right that does not stop at the end of the trace
PanRight_unclamped ==
    /\ time_start' = IF time_start < max_time
                     THEN time_start + time_range \div 4
                     ELSE time_start
    /\ mode = "Normal"
    /\ last_op' = KeyOp("pan_right")
    /\ UNCHANGED <<ui_vars, data_vars, list_vars, time_range, marker_vars, drag_vars>>

\* keybindings.right
PanRight ==
    /\ time_start' =
         IF time_start < max_time
         THEN LET max_start == SatSub(max_time, time_range)
              IN Min2(time_start + time_range \div 4, max_start)
         ELSE time_start
    /\ mode = "Normal"
    /\ last_op' = KeyOp("pan_right")
    /\ UNCHANGED <<ui_vars, data_vars, list_vars, time_range, marker_vars, drag_vars>>

\* variant of zoom-out that keeps the centre without moving the window back
\* inside the trace
ZoomOut_unadjusted ==
    LET new_time_range == Min2(time_range * 2, max_time)
        center == time_start + time_range \div 2
        half_new_range == new_time_range \div 2
        new_start == IF center > half_new_range
                     THEN SatSub(center, half_new_range) ELSE 0
    IN /\ time_start' = new_start
       /\ time_range' = new_time_range
       /\ mode = "Normal"
       /\ last_op' = KeyOp("zoom_out")
       /\ UNCHANGED <<ui_vars, data_vars, list_vars, marker_vars, drag_vars>>

\* keybindings.zoom_out
ZoomOut ==
    LET new_time_range == Min2(time_range * 2, max_time)
        center == time_start + time_range \div 2
        half_new_range == new_time_range \div 2
        new_start == IF center > half_new_range
                     THEN SatSub(center, half_new_range) ELSE 0
        adjusted_start == IF new_start + new_time_range > max_time
                          THEN SatSub(max_time, new_time_range)
                          ELSE new_start
    IN /\ time_start' = adjusted_start
       /\ time_range' = new_time_range
       /\ mode = "Normal"
       /\ last_op' = KeyOp("zoom_out")
       /\ UNCHANGED <<ui_vars, data_vars, list_vars, marker_vars, drag_vars>>

\* variant of zoom-in that halves the window from its left edge
ZoomIn_keep_start ==
    /\ time_range' = Max2(time_range \div 2, 10)
    /\ mode = "Normal"
    /\ last_op' = KeyOp("zoom_in")
    /\ UNCHANGED <<ui_vars, data_vars, list_vars, time_start, marker_vars, drag_vars>>

\* keybindings.zoom_in
ZoomIn ==
    LET center == time_start + time_range \div 2
        new_time_range == Max2(time_range \div 2, 10)
        half_new_range == new_time_range \div 2
        new_start == SatSub(center, half_new_range)
    IN /\ time_start' = new_start
       /\ time_range' = new_time_range
       /\ mode = "Normal"
       /\ last_op' = KeyOp("zoom_in")
       /\ UNCHANGED <<ui_vars, data_vars, list_vars, marker_vars, drag_vars>>

\* variant of zoom-full that also forgets the two markers
ZoomFull_forgets_markers ==
    /\ time_start' = 0
    /\ time_range' = max_time
    /\ primary_marker' = None
    /\ secondary_marker' = None
    /\ mode = "Normal"
    /\ last_op' = KeyOp("zoom_full")
    /\ UNCHANGED <<ui_vars, data_vars, list_vars, saved_markers, drag_vars>>

\* keybindings.zoom_full
ZoomFull ==
    /\ time_start' = 0
    /\ time_range' = max_time
    /\ mode = "Normal"
    /\ last_op' = KeyOp("zoom_full")
    /\ UNCHANGED <<ui_vars, data_vars, list_vars, marker_vars, drag_vars>>

\* keybindings.delete_primary_marker
DeletePrimaryMarker ==
    /\ primary_marker' = None
    /\ mode = "Normal"
    /\ last_op' = KeyOp("delete_primary_marker")
    /\ UNCHANGED <<ui_vars, data_vars, list_vars, view_vars, secondary_marker,
                   saved_markers, drag_vars>>

\* keybindings.delete_secondary_marker
DeleteSecondaryMarker ==
    /\ secondary_marker' = None
    /\ mode = "Normal"
    /\ last_op' = KeyOp("delete_secondary_marker")
    /\ UNCHANGED <<ui_vars, data_vars, list_vars, view_vars, primary_marker,
                   saved_markers, drag_vars>>

\* ------------------------------------------- the navigation specification
\* any view that satisfies both bounds over a trace with max_time >= 10
InitNav ==
    /\ signals = <<>>
    /\ values = <<>>
    /\ max_time \in 10..MaxNavTime
    /\ displayed_signals = <<>>
    /\ selected_signal = 0
    /\ time_range \in 10..max_time
    /\ time_start \in 0..(max_time - time_range)
    /\ primary_marker = None
    /\ secondary_marker = None
    /\ saved_markers = <<>>
    /\ drag_start = None
    /\ drag_current = None
    /\ is_dragging = FALSE
    /\ mode = "Normal"
    /\ command_state = CommandDefault
    /\ gesture = NoGesture
    /\ mouse_events = 0
    /\ signal_scroll_offset = 0
    /\ fuzzy = FuzzyDefault
    /\ last_op = NoOp

NextNav == PanLeft \/ PanRight \/ ZoomIn \/ ZoomOut

SpecNav == InitNav /\ [][NextNav]_vars

\* ------------------------------------------------ state.rs: the markers
\* the products (x_pos / window_width) * time_range whose exact value is
\* k + 1/2 and which f64 evaluates just below it, as <<x_pos, window_width,
\* time_range>>: all of them for window_width <= 13 and time_range <= 100
F64BelowHalf == {<<7, 10, 45>>, <<7, 10, 85>>}

\* f64::round of (x_pos / window_width) * time_range: halves round up
RoundedOffset(x_pos, window_width) ==
    LET exact == (2 * x_pos * time_range + window_width) \div (2 * window_width)
    IN IF <<x_pos, window_width, time_range>> \in F64BelowHalf
       THEN exact - 1 ELSE exact

screen_pos_to_time(x_pos, window_width) ==
    time_start + RoundedOffset(x_pos, window_width)

\* ------------------------------------------------- app.rs: handle_mouse
\* constants.rs
DRAG_DETECTED_THRESHOLD_PIXELS == 3
DRAG_STARTED_THRESHOLD_PIXELS == 5

Abs(n) == IF n < 0 THEN 0 - n ELSE n

\* the columns of the mouse events, relative to layout.waveform.x;
\* mouse_within_rect admits the column waveform.x + width as well
Columns == {0, 1, 2, 4, 7, WaveformWidth}

MouseOp(name, x, out) == [NoOp EXCEPT !.op = name, !.t = x, !.out = out]

\* one more mouse event is delivered to handle_mouse
MouseEvent ==
    /\ mouse_events < MaxMouseEvents
    /\ mouse_events' = mouse_events + 1

\* Down(Left) inside the waveform area, without Shift: a click or a drag
\* may begin
MouseDown(x) ==
    LET time == screen_pos_to_time(x, WaveformWidth)
    IN /\ MouseEvent
       /\ drag_start' = Some(<<x, time>>)
       /\ drag_current' = Some(<<x, time>>)
       /\ is_dragging' = FALSE
       /\ gesture' = [press |-> <<x, time>>, far |-> FALSE,
                      last |-> <<x, time>>, left |-> FALSE]
       /\ last_op' = MouseOp("mouse_down", x, "press")
       /\ UNCHANGED <<ui_vars, data_vars, list_vars, view_vars, marker_vars>>

\* Down(Left) inside the waveform area with Shift
MouseShiftDown(x) ==
    /\ MouseEvent
    /\ UNCHANGED <<drag_start, drag_current, is_dragging, gesture>>
    /\ secondary_marker' = Some(screen_pos_to_time(x, WaveformWidth))
    /\ last_op' = MouseOp("mouse_shift_down", x, "secondary")
    /\ UNCHANGED <<ui_vars, data_vars, list_vars, view_vars, primary_marker,
                   saved_markers>>

\* Drag(Left) inside the waveform area
MouseDrag(x) ==
    LET time == screen_pos_to_time(x, WaveformWidth)
    IN /\ MouseEvent
       /\ IF drag_start # None
          THEN /\ is_dragging' =
                    IF /\ ~is_dragging
                       /\ Abs(drag_start[1][1] - x)
                            >= DRAG_DETECTED_THRESHOLD_PIXELS
                    THEN TRUE ELSE is_dragging
               /\ drag_current' = Some(<<x, time>>)
          ELSE UNCHANGED <<is_dragging, drag_current>>
       /\ gesture' =
            IF gesture.press # <<>>
            THEN [gesture EXCEPT
                    !.far = @ \/ Abs(gesture.press[1] - x) >= 3,
                    !.last = <<x, time>>]
            ELSE gesture
       /\ last_op' = MouseOp("mouse_drag", x, "drag")
       /\ UNCHANGED <<ui_vars, data_vars, list_vars, view_vars, marker_vars,
                      drag_start>>

\* variant of the release that zooms as soon as a drag was detected
MouseUp_no_minimum ==
    /\ IF drag_start # None /\ drag_current # None
       THEN LET start_x == drag_start[1][1]
                start_time == drag_start[1][2]
                end_time == drag_current[1][2]
            IN IF is_dragging
               THEN /\ time_start' = Min2(start_time, end_time)
                    /\ time_range' =
                         Max2(SatSub(Max2(start_time, end_time),
                                     Min2(start_time, end_time)), 1)
                    /\ last_op' = MouseOp("mouse_up", 0, "zoom")
                    /\ UNCHANGED primary_marker
               ELSE /\ primary_marker' =
                         Some(screen_pos_to_time(start_x, WaveformWidth))
                    /\ last_op' = MouseOp("mouse_up", 0, "marker")
                    /\ UNCHANGED view_vars
       ELSE /\ last_op' = MouseOp("mouse_up", 0, "none")
            /\ UNCHANGED <<view_vars, primary_marker>>
    /\ MouseEvent
    /\ drag_start' = None
    /\ drag_current' = None
    /\ is_dragging' = FALSE
    /\ gesture' = NoGesture
    /\ UNCHANGED <<ui_vars, data_vars, list_vars, secondary_marker, saved_markers>>

\* Up(Left) inside the waveform area; the column of the release itself is
\* not used
MouseUp ==
    /\ IF drag_start # None /\ drag_current # None
       THEN LET start_x == drag_start[1][1]
                start_time == drag_start[1][2]
                end_x == drag_current[1][1]
                end_time == drag_current[1][2]
            IN IF is_dragging
               THEN IF Abs(start_x - end_x) > DRAG_STARTED_THRESHOLD_PIXELS
                    THEN /\ time_start' = Min2(start_time, end_time)
                         /\ time_range' =
                              Max2(SatSub(Max2(start_time, end_time),
                                          Min2(start_time, end_time)), 1)
                         /\ last_op' = MouseOp("mouse_up", 0, "zoom")
                         /\ UNCHANGED primary_marker
                    ELSE /\ last_op' = MouseOp("mouse_up", 0, "none")
                         /\ UNCHANGED <<view_vars, primary_marker>>
               ELSE /\ primary_marker' =
                         Some(screen_pos_to_time(start_x, WaveformWidth))
                    /\ last_op' = MouseOp("mouse_up", 0, "marker")
                    /\ UNCHANGED view_vars
       ELSE /\ last_op' = MouseOp("mouse_up", 0, "none")
            /\ UNCHANGED <<view_vars, primary_marker>>
    /\ MouseEvent
    /\ drag_start' = None
    /\ drag_current' = None
    /\ is_dragging' = FALSE
    /\ gesture' = NoGesture
    /\ UNCHANGED <<ui_vars, data_vars, list_vars, secondary_marker, saved_markers>>

\* the kinds of mouse events
MouseKinds == {"Down", "Drag", "Up"}

\* variant of the event outside both areas that forgets the press and the
\* drag position and keeps is_dragging
MouseOutside_keeps_dragging(kind) ==
    /\ MouseEvent
    /\ drag_start' = None
    /\ drag_current' = None
    /\ UNCHANGED is_dragging
    /\ gesture' = IF kind = "Drag" /\ gesture.press # <<>>
                  THEN [gesture EXCEPT !.left = TRUE]
                  ELSE NoGesture
    /\ last_op' = MouseOp("mouse_outside", 0, kind)
    /\ UNCHANGED <<ui_vars, data_vars, list_vars, view_vars, marker_vars>>

\* any mouse event outside the waveform area and the signal list: a press
\* or a release there ends the pending gesture, a drag there leaves it
MouseOutside(kind) ==
    /\ MouseEvent
    /\ drag_start' = None
    /\ drag_current' = None
    /\ is_dragging' = FALSE
    /\ gesture' = IF kind = "Drag" /\ gesture.press # <<>>
                  THEN [gesture EXCEPT !.left = TRUE]
                  ELSE NoGesture
    /\ last_op' = MouseOp("mouse_outside", 0, kind)
    /\ UNCHANGED <<ui_vars, data_vars, list_vars, view_vars, marker_vars>>

\* ------------------------------------------------------- the file system
\* the VCD files the application loads; a path that cannot be opened has
\* readable = FALSE
VcdFile(lines) == [readable |-> TRUE, lines |-> lines]
Unreadable == [readable |-> FALSE, lines |-> <<>>]

FileA ==
    VcdFile(<< ScopeLine("top"), VarLine("!", "clk"), VarLine("%", "data"),
               Line("$upscope"), Line("$enddefinitions"), Line("$dumpvars"),
               ChangeLine(Binary("V0"), "!"),
               ChangeLine(Bus(<<"1", "0", "1", "0">>), "%"),
               Line("$end"),
               TimeLine(10), ChangeLine(Binary("V1"), "!"),
               TimeLine(20), ChangeLine(Binary("V0"), "!"),
               ChangeLine(Bus(<<"1", "x">>), "%"),
               TimeLine(TraceEndA) >>)

FileB ==
    VcdFile(<< VarLine("!", "clk"), Line("$enddefinitions"),
               TimeLine(0), ChangeLine(Binary("V1"), "!"),
               TimeLine(5), ChangeLine(Binary("V0"), "!"),
               ChangeLine(Binary("V1"), "?"),
               TimeLine(TraceEndB) >>)

Files == [a |-> FileA, b |-> FileB, missing |-> Unreadable]

\* ------------------------------------------------- app.rs: load_vcd_file
LoadVcdFile(path) ==
    LET waveform_data == parse_vcd_file(Files[path])
    IN \* the existing data is cleared before the file is parsed
       /\ displayed_signals' = <<>>
       /\ UNCHANGED ui_vars
       /\ IF ~waveform_data.ok
          THEN \* the `?` returns the error
               /\ signals' = <<>>
               /\ values' = <<>>
               /\ last_op' = [NoOp EXCEPT !.op = "load_vcd_file",
                                          !.sig = path, !.ok = FALSE]
               /\ UNCHANGED <<max_time, selected_signal, signal_scroll_offset,
                              fuzzy, view_vars, marker_vars, drag_vars>>
          ELSE /\ signals' = waveform_data.signals
               /\ fuzzy' = set_signals(fuzzy, waveform_data.signals, <<>>)
               /\ values' = waveform_data.values
               /\ max_time' = waveform_data.max_time
               /\ time_start' = 0
               /\ time_range' = waveform_data.max_time
               /\ selected_signal' = 0
               /\ last_op' = [NoOp EXCEPT !.op = "load_vcd_file",
                                          !.sig = path]
               /\ UNCHANGED <<signal_scroll_offset, marker_vars, drag_vars>>

\* ----------------------------------- app.rs: handle_fuzzy_finder_input
\* KeyCode::Down: FuzzyFinderState::select_next
FuzzyDown ==
    /\ mode = "FuzzyFinder"
    /\ fuzzy' = [fuzzy EXCEPT !.list_selected =
                    IF @ = None THEN Some(0)
                    ELSE IF @[1] >= SatSub(Len(fuzzy.all_signals), 1)
                         THEN Some(0) ELSE Some(@[1] + 1)]
    /\ last_op' = KeyOp("fuzzy_down")
    /\ UNCHANGED <<ui_vars, data_vars, displayed_signals, selected_signal,
                   signal_scroll_offset, view_vars, marker_vars, drag_vars>>

\* KeyCode::Char(' '): FuzzyFinderState::toggle_selected_signal
FuzzyToggle ==
    /\ mode = "FuzzyFinder"
    /\ fuzzy' =
         IF fuzzy.list_selected # None
            /\ fuzzy.list_selected[1] < Len(fuzzy.all_signals)
         THEN LET signal == fuzzy.all_signals[fuzzy.list_selected[1] + 1]
              IN [fuzzy EXCEPT !.selected_signals =
                     IF signal \in @ THEN @ \ {signal} ELSE @ \cup {signal}]
         ELSE fuzzy
    /\ last_op' = KeyOp("fuzzy_toggle")
    /\ UNCHANGED <<ui_vars, data_vars, displayed_signals, selected_signal,
                   signal_scroll_offset, view_vars, marker_vars, drag_vars>>

\* variant of the Enter key that lists the selected signals last to first
FuzzyAccept_reversed ==
    /\ mode = "FuzzyFinder"
    /\ mode' = "Normal"
    /\ displayed_signals' =
         LET chosen == SelectSeq(signals, LAMBDA sg : sg \in fuzzy.selected_signals)
         IN [i \in 1..Len(chosen) |-> chosen[Len(chosen) + 1 - i]]
    /\ selected_signal' =
         IF selected_signal >= Len(displayed_signals') THEN 0
         ELSE selected_signal
    /\ last_op' = KeyOp("fuzzy_accept")
    /\ UNCHANGED <<command_state, data_vars, signal_scroll_offset, fuzzy,
                   view_vars, marker_vars, drag_vars>>

\* KeyCode::Enter: the selected signals in the order of waveform_data.signals
FuzzyAccept ==
    /\ mode = "FuzzyFinder"
    /\ mode' = "Normal"
    /\ displayed_signals' =
         SelectSeq(signals, LAMBDA sg : sg \in fuzzy.selected_signals)
    /\ selected_signal' =
         IF selected_signal >= Len(displayed_signals') THEN 0
         ELSE selected_signal
    /\ last_op' = KeyOp("fuzzy_accept")
    /\ UNCHANGED <<command_state, data_vars, signal_scroll_offset, fuzzy,
                   view_vars, marker_vars, drag_vars>>

\* KeyCode::Esc: the finder is left and the selections are not applied
FuzzyCancel ==
    /\ mode = "FuzzyFinder"
    /\ mode' = "Normal"
    /\ last_op' = KeyOp("fuzzy_cancel")
    /\ UNCHANGED <<command_state, data_vars, list_vars, view_vars,
                   marker_vars, drag_vars>>

\* -------------------------------------------------- commands/find_signal.rs
\* the handler of the findsignal command
FindSignal ==
    /\ mode' = "FuzzyFinder"
    /\ last_op' = [NoOp EXCEPT !.op = "findsignal",
                               !.out = "Opening signal finder"]
    /\ UNCHANGED <<command_state, data_vars, list_vars, view_vars,
                   marker_vars, drag_vars>>

\* ------------------------------------------------------ the text of commands
\* command arguments are strings, written as sequences of characters
Digits == <<"0", "1", "2", "3", "4", "5", "6", "7", "8", "9">>
IsDigit(c) == \E i \in 1..10 : Digits[i] = c
DigitValue(c) == (CHOOSE i \in 1..10 : Digits[i] = c) - 1

\* u64 Display: the decimal numeral of n
RECURSIVE DecString(_)
DecString(n) ==
    IF n < 10 THEN <<Digits[n + 1]>>
    ELSE DecString(n \div 10) \o <<Digits[(n % 10) + 1]>>

RECURSIVE FoldDigits(_, _)
FoldDigits(str, acc) ==
    IF str = <<>> THEN acc
    ELSE FoldDigits(Tail(str), acc * 10 + DigitValue(Head(str)))

\* str::parse::<u64>: an optional '+' and at least one decimal digit
ParseU64(str) ==
    LET digits == IF str # <<>> /\ str[1] = "+" THEN Tail(str) ELSE str
    IN IF digits = <<>> \/ \E i \in 1..Len(digits) : ~IsDigit(digits[i])
       THEN [ok |-> FALSE, val |-> 0]
       ELSE [ok |-> TRUE, val |-> FoldDigits(digits, 0)]

\* the result of a handler: Err or Ok with the fixed part of its message, and
\* the fields of the state a command writes
CmdErr(msg) == [ok |-> FALSE, msg |-> msg, time_start |-> time_start,
                time_range |-> time_range, saved_markers |-> saved_markers]
CmdOk(msg) == [ok |-> TRUE, msg |-> msg, time_start |-> time_start,
               time_range |-> time_range, saved_markers |-> saved_markers]

\* ------------------------------------------------------- commands/goto.rs
\* variant of goto that rejects the last time stamp of the trace
goto_exclusive(args) ==
    IF args = <<>> THEN CmdErr("Usage: goto <time>")
    ELSE LET time == ParseU64(args[1])
         IN IF time.ok
            THEN IF time.val < max_time
                 THEN LET half_range == time_range \div 2
                      IN [CmdOk("Moved to time") EXCEPT !.time_start =
                            IF time.val > half_range
                            THEN time.val - half_range ELSE 0]
                 ELSE CmdErr("Time out of range")
            ELSE CmdErr("Invalid time format")

goto(args) ==
    IF args = <<>> THEN CmdErr("Usage: goto <time>")
    ELSE LET time == ParseU64(args[1])
         IN IF time.ok
            THEN IF time.val <= max_time
                 THEN LET half_range == time_range \div 2
                      IN [CmdOk("Moved to time") EXCEPT !.time_start =
                            IF time.val > half_range
                            THEN time.val - half_range ELSE 0]
                 ELSE CmdErr("Time out of range")
            ELSE CmdErr("Invalid time format")

\* ------------------------------------------------------- commands/zoom.rs
zoom(args) ==
    IF args = <<>> THEN CmdErr("Usage: zoom <factor>")
    ELSE LET factor == ParseU64(args[1])
         IN IF factor.ok /\ factor.val > 0
            THEN LET center == time_start + time_range \div 2
                     new_range == max_time \div factor.val
                     half_new_range == new_range \div 2
                     new_start == IF center > half_new_range
                                  THEN center - half_new_range ELSE 0
                 IN [CmdOk("Zoomed to 1/") EXCEPT !.time_start = new_start,
                                                   !.time_range = new_range]
            ELSE CmdErr("Invalid zoom factor")

\* ----------------------------------------------------- commands/marker.rs
\* str::to_lowercase on the letters the color names use
LowerOf(c) ==
    CASE c = "R" -> "r" [] c = "E" -> "e" [] c = "D" -> "d" [] OTHER -> c
ToLowercase(str) == [i \in 1..Len(str) |-> LowerOf(str[i])]

\* Color::from_str on the lower-cased name; "red" stands for the ANSI names
ParseColor(str) ==
    IF str = <<"r", "e", "d">> THEN [ok |-> TRUE, color |-> "Red"]
    ELSE [ok |-> FALSE, color |-> ""]

\* constants::DEFAULT_SAVED_MARKER_COLOR
DEFAULT_SAVED_MARKER_COLOR == "Cyan"

HasMarker(name) == \E i \in 1..Len(saved_markers) : saved_markers[i].name = name
\* Iterator::position
MarkerPosition(name) ==
    CHOOSE i \in 1..Len(saved_markers) :
        /\ saved_markers[i].name = name
        /\ \A j \in 1..(i - 1) : saved_markers[j].name # name

\* the time of a new marker: the second argument, else the primary marker
MarkerTime(args) ==
    IF Len(args) >= 2
    THEN LET t == ParseU64(args[2])
         IN IF t.ok
            THEN IF t.val > max_time
                 THEN [ok |-> FALSE, msg |-> "Time out of range", time |-> 0]
                 ELSE [ok |-> TRUE, msg |-> "", time |-> t.val]
            ELSE [ok |-> FALSE, msg |-> "Invalid time format", time |-> 0]
    ELSE IF primary_marker # None
         THEN [ok |-> TRUE, msg |-> "", time |-> primary_marker[1]]
         ELSE [ok |-> FALSE,
               msg |-> "No time specified and primary marker not set",
               time |-> 0]

\* variant of add_subcommand that pushes the marker before it looks for an
\* existing marker of the same name
add_subcommand_push_first(args) ==
    IF args = <<>> THEN CmdErr("Usage: marker add <name> [time]")
    ELSE LET name == args[1]
             time == MarkerTime(args)
             marker == [time |-> time.time, name |-> name,
                        color |-> DEFAULT_SAVED_MARKER_COLOR]
         IN IF ~time.ok THEN CmdErr(time.msg)
            ELSE IF HasMarker(name)
            THEN [CmdErr("Marker already exists") EXCEPT !.saved_markers =
                     Append(saved_markers, marker)]
            ELSE [CmdOk("Added marker") EXCEPT !.saved_markers =
                     Append(saved_markers, marker)]

add_subcommand(args) ==
    IF args = <<>> THEN CmdErr("Usage: marker add <name> [time]")
    ELSE LET name == args[1]
             time == MarkerTime(args)
         IN IF ~time.ok THEN CmdErr(time.msg)
            ELSE IF HasMarker(name) THEN CmdErr("Marker already exists")
            ELSE [CmdOk("Added marker") EXCEPT !.saved_markers =
                     Append(saved_markers,
                            [time |-> time.time, name |-> name,
                             color |-> DEFAULT_SAVED_MARKER_COLOR])]

remove_subcommand(args) ==
    IF args = <<>> THEN CmdErr("Usage: marker remove <name>")
    ELSE LET name == args[1]
         IN IF HasMarker(name)
            THEN LET index == MarkerPosition(name)
                 IN [CmdOk("Removed marker") EXCEPT !.saved_markers =
                        SubSeq(saved_markers, 1, index - 1)
                        \o SubSeq(saved_markers, index + 1, Len(saved_markers))]
            ELSE CmdErr("No marker found with name")

color_subcommand(args) ==
    IF Len(args) < 2 THEN CmdErr("Usage: marker color <name> <color>")
    ELSE LET name == args[1]
             color == ParseColor(ToLowercase(args[2]))
         IN IF ~color.ok THEN CmdErr("Unknown color")
            ELSE IF HasMarker(name)
            THEN [CmdOk("Set color of marker") EXCEPT !.saved_markers =
                    [saved_markers EXCEPT ![MarkerPosition(name)].color =
                        color.color]]
            ELSE CmdErr("No marker found with name")

marker(args) ==
    IF args = <<>>
    THEN CmdErr("Usage: marker add <name> [time] or marker remove <name>")
    ELSE LET subcommand == args[1]
         IN CASE subcommand \in {<<"a", "d", "d">>, <<"a">>} ->
                    add_subcommand(Tail(args))
              [] subcommand \in {<<"r", "e", "m", "o", "v", "e">>, <<"r", "m">>} ->
                    remove_subcommand(Tail(args))
              [] subcommand \in {<<"c", "o", "l", "o", "r">>, <<"c">>} ->
                    color_subcommand(Tail(args))
              [] OTHER -> CmdErr("Unknown subcommand.")

\* ------------------------------------------- the commands as operations
\* the arguments the commands are invoked with
NotANumber == <<"x">>
GotoTimes == {0, 6, TraceEndB, TraceEndB + 1, TraceEndA, TraceEndA + 1}
GotoArgs == {<<>>, <<NotANumber>>} \cup {<<DecString(t)>> : t \in GotoTimes}
ZoomFactors == {0, 1, 2, 4}
ZoomArgs == {<<>>, <<NotANumber>>} \cup {<<DecString(n)>> : n \in ZoomFactors}
M1 == <<"m", "1">>
M2 == <<"m", "2">>
MarkerArgs ==
    { <<>>, <<<<"l", "s">>>>,
      <<<<"a", "d", "d">>>>,
      <<<<"a", "d", "d">>, M1>>,
      <<<<"a">>, M1, DecString(5)>>,
      <<<<"a", "d", "d">>, M1, DecString(TraceEndA + 1)>>,
      <<<<"a", "d", "d">>, M1, NotANumber>>,
      <<<<"r", "e", "m", "o", "v", "e">>>>,
      <<<<"r", "m">>, M1>>,
      <<<<"r", "e", "m", "o", "v", "e">>, M2>>,
      <<<<"c", "o", "l", "o", "r">>, M1>>,
      <<<<"c", "o", "l", "o", "r">>, M1, <<"R", "e", "d">>>>,
      <<<<"c">>, M2, <<"r", "e", "d">>>>,
      <<<<"c">>, M1, <<"n", "o">>>> }

\* Command::execute: the handler runs on the state and returns its result
ExecuteCommand(name, args, result) ==
    /\ time_start' = result.time_start
    /\ time_range' = result.time_range
    /\ saved_markers' = result.saved_markers
    /\ last_op' = [NoOp EXCEPT !.op = name, !.args = args, !.ok = result.ok,
                               !.out = result.msg]
    /\ UNCHANGED <<ui_vars, data_vars, list_vars, primary_marker, secondary_marker,
                   drag_vars>>

GotoCmd == \E args \in GotoArgs : ExecuteCommand("goto", args, goto(args))
ZoomCmd == \E args \in ZoomArgs : ExecuteCommand("zoom", args, zoom(args))
MarkerCmd == \E args \in MarkerArgs : ExecuteCommand("marker", args, marker(args))

\* -------------------------------------------------- commands/zoomfull.rs
\* the handler of the zoomfull command
zoomfull(args) ==
    [CmdOk(<<"Zoomed to full view">>) EXCEPT !.time_start = 0,
                                           !.time_range = max_time]

\* --------------------------------- app.rs: handle_command_input, the widget
\* the characters typed into the command line
InputChars == {"z", "f"}

\* a key of Command mode: the command state in front of the key is kept
CommandKeyOp(name) == [NoOp EXCEPT !.op = name, !.args = command_state]

\* CommandModeWidget::handle_input: the key is handed to the command state
CommandKey(name, cs) ==
    /\ mode = "Command"
    /\ command_state' = cs
    /\ last_op' = CommandKeyOp(name)
    /\ UNCHANGED <<mode, data_vars, list_vars, view_vars, marker_vars,
                   drag_vars>>

InsertChar ==
    \E c \in InputChars :
        /\ Len(command_state.input_buffer) < MaxInputLen
        /\ CommandKey("insert", insert(command_state, c))
DeleteKey == CommandKey("delete", delete(command_state))
BackspaceKey == CommandKey("backspace", backspace(command_state))
CursorLeft == CommandKey("move_cursor_left", move_cursor_left(command_state))
CursorRight == CommandKey("move_cursor_right", move_cursor_right(command_state))
HomeKey == CommandKey("move_cursor_start", move_cursor_start(command_state))
EndKey == CommandKey("move_cursor_end", move_cursor_end(command_state))
HistoryUp == CommandKey("previous_history", previous_history(command_state))
HistoryDown == CommandKey("next_history", next_history(command_state))

\* handle_input: keybindings.enter_command_mode outside Command mode
EnterCommandMode ==
    /\ mode = "Normal"
    /\ mode' = "Command"
    /\ command_state' = clear(command_state)
    /\ last_op' = CommandKeyOp("enter_command_mode")
    /\ UNCHANGED <<data_vars, list_vars, view_vars, marker_vars, drag_vars>>

\* handle_command_input: keybindings.enter_normal_mode
EnterNormalMode ==
    /\ mode = "Command"
    /\ mode' = "Normal"
    /\ command_state' = clear(command_state)
    /\ last_op' = CommandKeyOp("enter_normal_mode")
    /\ UNCHANGED <<data_vars, list_vars, view_vars, marker_vars, drag_vars>>

\* CommandParser::execute on a line without white space: the line is the
\* command name; zf is the only registered name or alias made of InputChars
ParserExecute(input) ==
    IF input = <<"z", "f">> THEN zoomfull(<<>>)
    ELSE CmdErr(<<"Unknown command: ">> \o input)

\* variant of the execute key that leaves the line in the input buffer
ExecuteLine_keeps_line ==
    /\ mode = "Command"
    /\ \/ command_state.input_buffer = <<>>
       \/ Len(command_state.history) < MaxHistory
    /\ last_op' = CommandKeyOp("execute")
    /\ IF command_state.input_buffer = <<>>
       THEN UNCHANGED <<mode, command_state, view_vars, saved_markers>>
       ELSE LET result == ParserExecute(command_state.input_buffer)
            IN /\ command_state' =
                    [add_to_history(command_state) EXCEPT
                        !.result_message = Some(result.msg),
                        !.result_is_error = ~result.ok]
               /\ time_start' = result.time_start
               /\ time_range' = result.time_range
               /\ saved_markers' = result.saved_markers
               /\ mode' = "Normal"
    /\ UNCHANGED <<data_vars, list_vars, primary_marker, secondary_marker,
                   drag_vars>>

\* handle_command_input: keybindings.execute_command, CommandModeWidget::execute
ExecuteLine ==
    /\ mode = "Command"
    /\ \/ command_state.input_buffer = <<>>
       \/ Len(command_state.history) < MaxHistory
    /\ last_op' = CommandKeyOp("execute")
    /\ IF command_state.input_buffer = <<>>
       THEN UNCHANGED <<mode, command_state, view_vars, saved_markers>>
       ELSE LET result == ParserExecute(command_state.input_buffer)
            IN /\ command_state' =
                    [add_to_history(command_state) EXCEPT
                        !.result_message = Some(result.msg),
                        !.result_is_error = ~result.ok,
                        !.input_buffer = <<>>,
                        !.cursor_position = 0]
               /\ time_start' = result.time_start
               /\ time_range' = result.time_range
               /\ saved_markers' = result.saved_markers
               /\ mode' = "Normal"
    /\ UNCHANGED <<data_vars, list_vars, primary_marker, secondary_marker,
                   drag_vars>>

\* ------------------------------------------ the application specifications
\* AppState::new() and App::default()
InitApp ==
    /\ signals = <<>>
    /\ values = <<>>
    /\ max_time = 0
    /\ displayed_signals = <<>>
    /\ selected_signal = 0
    /\ time_start = 0
    /\ time_range = 50
    /\ primary_marker = None
    /\ secondary_marker = None
    /\ saved_markers = <<>>
    /\ drag_start = None
    /\ drag_current = None
    /\ is_dragging = FALSE
    /\ mode = "Normal"
    /\ command_state = CommandDefault
    /\ gesture = NoGesture
    /\ mouse_events = 0
    /\ signal_scroll_offset = 0
    /\ fuzzy = FuzzyDefault
    /\ last_op = NoOp

Load == \E path \in DOMAIN Files : LoadVcdFile(path)

\* loading files, selecting the displayed signals and moving the view
NextLoad ==
    \/ Load
    \/ FindSignal
    \/ FuzzyDown \/ FuzzyToggle \/ FuzzyAccept \/ FuzzyCancel
    \/ ZoomIn \/ PanRight \/ ZoomFull

SpecLoad == InitApp /\ [][NextLoad]_vars

\* the mouse in the waveform area of the freshly constructed application
NextMouse ==
    \/ \E x \in Columns : MouseDown(x)
    \/ \E x \in Columns : MouseShiftDown(x)
    \/ \E x \in Columns : MouseDrag(x)
    \/ MouseUp
    \/ \E kind \in MouseKinds : MouseOutside(kind)
    \/ \E row \in SignalRows : SignalListClick(row)

SpecMouse == InitApp /\ [][NextMouse]_vars

\* the fresh application after mouse events that placed markers by clicks
\* in columns 1 and 7, with no left press pending or with a press in column
\* 1 dragged to column 7 and one more mouse event to come
InitFrame ==
    /\ signals = <<>>
    /\ values = <<>>
    /\ max_time = 0
    /\ displayed_signals = <<>>
    /\ selected_signal = 0
    /\ time_start = 0
    /\ time_range = 50
    /\ primary_marker \in {None, Some(screen_pos_to_time(1, WaveformWidth))}
    /\ secondary_marker \in {None, Some(screen_pos_to_time(7, WaveformWidth))}
    /\ saved_markers = <<>>
    /\ LET p1 == <<1, screen_pos_to_time(1, WaveformWidth)>>
           p7 == <<7, screen_pos_to_time(7, WaveformWidth)>>
       IN \/ /\ drag_start = None
             /\ drag_current = None
             /\ is_dragging = FALSE
             /\ gesture = NoGesture
             /\ mouse_events = MaxMouseEvents
          \/ /\ drag_start = Some(p1)
             /\ drag_current = Some(p7)
             /\ is_dragging = TRUE
             /\ gesture = [press |-> p1, far |-> TRUE, last |-> p7,
                           left |-> FALSE]
             /\ mouse_events = MaxMouseEvents - 1
    /\ signal_scroll_offset = 0
    /\ fuzzy = FuzzyDefault
    /\ mode = "Normal"
    /\ command_state = CommandDefault
    /\ last_op = NoOp

\* loading files, every operation that moves the view, the delete-marker
\* keys and the release of the mouse
NextFrame ==
    \/ Load
    \/ PanLeft \/ PanRight \/ ZoomIn \/ ZoomOut \/ ZoomFull
    \/ GotoCmd \/ ZoomCmd
    \/ DeletePrimaryMarker \/ DeleteSecondaryMarker
    \/ MouseUp

SpecFrame == InitFrame /\ [][NextFrame]_vars

\* the primary marker is unset or was placed by a click into the waveform of
\* the fresh application (time_start = 0, time_range = 50) at an eighth
InitCommands ==
    /\ signals = <<>>
    /\ values = <<>>
    /\ max_time = 0
    /\ displayed_signals = <<>>
    /\ selected_signal = 0
    /\ time_start = 0
    /\ time_range = 50
    /\ primary_marker \in {None, Some(6)}
    /\ secondary_marker = None
    /\ saved_markers = <<>>
    /\ drag_start = None
    /\ drag_current = None
    /\ is_dragging = FALSE
    /\ mode = "Normal"
    /\ command_state = CommandDefault
    /\ gesture = NoGesture
    /\ mouse_events = 0
    /\ signal_scroll_offset = 0
    /\ fuzzy = FuzzyDefault
    /\ last_op = NoOp

\* loading files, moving the view with the keys and the commands
Next ==
    \/ Load
    \/ PanLeft \/ PanRight \/ ZoomIn \/ ZoomOut \/ ZoomFull
    \/ DeletePrimaryMarker
    \/ GotoCmd \/ ZoomCmd \/ MarkerCmd

Spec == InitCommands /\ [][Next]_vars

\* the application after load_vcd_file of file a, with the primary marker
\* unset or placed by a click in column 7 of the waveform area
InitMarkers ==
    LET waveform_data == parse_vcd_file(Files["a"])
    IN /\ signals = waveform_data.signals
       /\ values = waveform_data.values
       /\ max_time = waveform_data.max_time
       /\ displayed_signals = <<>>
       /\ selected_signal = 0
       /\ time_start = 0
       /\ time_range = waveform_data.max_time
       /\ primary_marker \in {None, Some(screen_pos_to_time(7, WaveformWidth))}
       /\ secondary_marker = None
       /\ saved_markers = <<>>
       /\ drag_start = None
       /\ drag_current = None
       /\ is_dragging = FALSE
       /\ mode = "Normal"
       /\ command_state = CommandDefault
       /\ gesture = NoGesture
       /\ mouse_events = 0
       /\ signal_scroll_offset = 0
       /\ fuzzy = set_signals(FuzzyDefault, waveform_data.signals, <<>>)
       /\ last_op = NoOp

\* loading files, saving markers with the marker command and moving the view
NextMarkers ==
    \/ Load
    \/ MarkerCmd
    \/ PanRight \/ ZoomIn

SpecMarkers == InitMarkers /\ [][NextMarkers]_vars

\* the factors of the zoom command in front of a drag-select
DragFactors == {4, TraceEndB + 1}

\* the application after load_vcd_file of file b and one `zoom <factor>`
\* command: the window is centred on max_time / 2
InitDrag ==
    LET waveform_data == parse_vcd_file(Files["b"])
    IN /\ signals = waveform_data.signals
       /\ values = waveform_data.values
       /\ max_time = waveform_data.max_time
       /\ displayed_signals = <<>>
       /\ selected_signal = 0
       /\ \E factor \in DragFactors :
            LET center == waveform_data.max_time \div 2
                new_range == waveform_data.max_time \div factor
            IN /\ time_range = new_range
               /\ time_start = SatSub(center, new_range \div 2)
       /\ primary_marker = None
       /\ secondary_marker = None
       /\ saved_markers = <<>>
       /\ drag_start = None
       /\ drag_current = None
       /\ is_dragging = FALSE
       /\ mode = "Normal"
       /\ command_state = CommandDefault
       /\ gesture = NoGesture
       /\ mouse_events = 0
       /\ signal_scroll_offset = 0
       /\ fuzzy = set_signals(FuzzyDefault, waveform_data.signals, <<>>)
       /\ last_op = NoOp

\* the mouse over a loaded and zoomed waveform
SpecDrag == InitDrag /\ [][NextMouse]_vars

\* loading files, zooming with the command and the key, and panning; the
\* pan key that is pressed over and over keeps being handled: the event loop
\* of App::run passes every key event to handle_input
NextPan ==
    \/ Load
    \/ ZoomCmd
    \/ ZoomIn
    \/ PanLeft \/ PanRight

SpecPan ==
    /\ InitApp
    /\ [][NextPan]_vars
    /\ (WF_vars(PanRight) \/ WF_vars(PanLeft))

\* loading files, choosing the displayed signals in the finder and the
\* arrow keys of Normal mode
NextSignals ==
    \/ Load
    \/ FindSignal
    \/ FuzzyDown \/ FuzzyToggle \/ FuzzyAccept \/ FuzzyCancel
    \/ SelectUp \/ SelectDown
    \/ MoveUp \/ MoveDown
    \/ \E row \in SignalRows : SignalListClick(row)
    \/ PanLeft \/ PanRight \/ ZoomIn

SpecSignals == InitApp /\ [][NextSignals]_vars

\* the command line of the freshly constructed application
NextCommandLine ==
    \/ EnterCommandMode \/ EnterNormalMode
    \/ InsertChar \/ DeleteKey \/ BackspaceKey
    \/ CursorLeft \/ CursorRight \/ HomeKey \/ EndKey
    \/ HistoryUp \/ HistoryDown
    \/ ExecuteLine

SpecCommandLine == InitApp /\ [][NextCommandLine]_vars

\* ------------------------------------------------ the parser specification
\* the declarations at the head of the files: none, one signal, two signals
\* of which one is inside a scope, two signals in the other order, and one
\* identifier declared twice
Headers ==
    { <<>>,
      <<VarLine("!", "clk")>>,
      <<ScopeLine("top"), VarLine("!", "clk"), Line("$upscope"),
        VarLine("%", "data")>>,
      <<VarLine("%", "data"), VarLine("!", "clk")>>,
      <<VarLine("!", "clk"), VarLine("!", "clk2")>> }

\* the lines after the declarations; the identifier "?" is never declared
BodyLines ==
    { Line("$enddefinitions"), TimeLine(1), TimeLine(2),
      ChangeLine(Binary("V1"), "!"), ChangeLine(Binary("V0"), "?") }

Bodies == UNION {[1..n -> BodyLines] : n \in 0..MaxBodyLen}

\* the fresh application and a readable file that is about to be parsed
InitParse ==
    /\ signals = <<>>
    /\ values = <<>>
    /\ max_time = 0
    /\ displayed_signals = <<>>
    /\ selected_signal = 0
    /\ time_start = 0
    /\ time_range = 50
    /\ primary_marker = None
    /\ secondary_marker = None
    /\ saved_markers = <<>>
    /\ drag_start = None
    /\ drag_current = None
    /\ is_dragging = FALSE
    /\ mode = "Normal"
    /\ command_state = CommandDefault
    /\ gesture = NoGesture
    /\ mouse_events = 0
    /\ signal_scroll_offset = 0
    /\ fuzzy = FuzzyDefault
    /\ \E header \in Headers, body \in Bodies :
         last_op = [NoOp EXCEPT !.op = "file", !.args = header \o body]

\* parse_vcd_file on the file
ParseFile ==
    /\ last_op.op = "file"
    /\ last_op' = [last_op EXCEPT
                     !.op = "parse_vcd_file",
                     !.out = parse_vcd_file(VcdFile(last_op.args))]
    /\ UNCHANGED <<ui_vars, data_vars, list_vars, view_vars, marker_vars, drag_vars>>

NextParse == ParseFile

SpecParse == InitParse /\ [][NextParse]_vars

\* --------------------------------------- the vector change specification
\* every variable of the freshly constructed application but last_op
FreshState ==
    /\ signals = <<>>
    /\ values = <<>>
    /\ max_time = 0
    /\ displayed_signals = <<>>
    /\ selected_signal = 0
    /\ time_start = 0
    /\ time_range = 50
    /\ primary_marker = None
    /\ secondary_marker = None
    /\ saved_markers = <<>>
    /\ drag_start = None
    /\ drag_current = None
    /\ is_dragging = FALSE
    /\ mode = "Normal"
    /\ command_state = CommandDefault
    /\ gesture = NoGesture
    /\ mouse_events = 0
    /\ signal_scroll_offset = 0
    /\ fuzzy = FuzzyDefault

\* the strings of 1..n characters of an alphabet
StringsOver(alphabet, n) == UNION {[1..k -> alphabet] : k \in 1..n}

\* the bit strings of the vector changes `b<bits> <id>`
BitTexts == StringsOver({"0", "1", "x", "z"}, MaxBits)

\* the literals of the real changes `r<literal> <id>`
RealTexts ==
    { <<"1">>, <<"0">>, <<"1", "0">>, <<"1", ".", "5">>, <<"1", "e", "1">> }

\* what parse_value_change returns for a vector change and for a real change
VectorChange(bits, id) == ChangeLine(Bus(bits), id)
RealChange(literal, id) == ChangeLine(Bus(<<"r">> \o literal), id)

\* a file that declares the bus "data" and changes it once at time 1
BusFile(change) ==
    <<VarLine("%", "data"), Line("$enddefinitions"), TimeLine(1), change>>

InitBus ==
    /\ FreshState
    /\ \/ \E bits \in BitTexts :
            last_op = [NoOp EXCEPT !.op = "file",
                                   !.args = BusFile(VectorChange(bits, "%"))]
       \/ \E literal \in RealTexts :
            last_op = [NoOp EXCEPT !.op = "file",
                                   !.args = BusFile(RealChange(literal, "%"))]

SpecBus == InitBus /\ [][NextParse]_vars

\* ------------------------------------------------ the scope specification
ScopeLines ==
    { ScopeLine("a"), ScopeLine("b"), Line("$upscope"), VarLine("!", "s") }

\* declarations, scopes and $upscope lines in any order, then a declaration
InitScope ==
    /\ FreshState
    /\ \E n \in 0..MaxScopeLines : \E lines \in [1..n -> ScopeLines] :
         last_op = [NoOp EXCEPT !.op = "file",
                                !.args = lines \o <<VarLine("!", "s")>>]

SpecScope == InitScope /\ [][NextParse]_vars

\* ------------------------------------------- the identifier specification
IdChars == {"!", "#", "a", "1"}

\* the identifiers of n characters
RECURSIVE IdsOfLen(_)
IdsOfLen(n) ==
    IF n = 1 THEN IdChars
    ELSE {c \o id : c \in IdChars, id \in IdsOfLen(n - 1)}

Ids == UNION {IdsOfLen(n) : n \in 1..MaxIdLen}

\* what parse_value_change returns for the scalar and the vector changes
IdChanges(id) ==
    {ChangeLine(Binary(v), id) : v \in Value}
    \cup {VectorChange(bits, id) : bits \in StringsOver({"0", "x"}, 2)}

\* a file that declares one signal and changes it once at time 1
IdFile(id, change) ==
    <<VarLine(id, "sig"), Line("$enddefinitions"), TimeLine(1), change>>

InitIds ==
    /\ FreshState
    /\ \E id \in Ids : \E change \in IdChanges(id) :
         last_op = [NoOp EXCEPT !.op = "file", !.args = IdFile(id, change)]

SpecIds == InitIds /\ [][NextParse]_vars

\* --------------------------------------- the radix formatter specification
\* hexadecimal digits of either case
HexAlphabet == {"0", "1", "9", "a", "B", "d", "F"}
HexTexts == StringsOver(HexAlphabet, MaxHexLen)

\* a Bus string as the parser read it or as a test constructs it
InitRadix ==
    /\ FreshState
    /\ \E str \in BitTexts \cup HexTexts :
         last_op = [NoOp EXCEPT !.op = "bus", !.args = str]

\* the Bus string that the formatter is given: the drawn one, or its
\* canonical form after the conversion
CurrentBus ==
    IF last_op.op = "bus" THEN last_op.args ELSE last_op.out.bus

Rendered(op, uppercase, text) ==
    [last_op EXCEPT
        !.op = op,
        !.out = [bus |-> CurrentBus,
                 canonical |-> last_op.op = "parse_binary_to_hex",
                 uppercase |-> uppercase, text |-> text]]

\* the post-pass of parse_vcd_file on one Bus value of 0s and 1s
Canonicalize ==
    /\ last_op.op = "bus"
    /\ AllBinaryDigits(last_op.args)
    /\ last_op' = [last_op EXCEPT
                     !.op = "parse_binary_to_hex",
                     !.out = [bus |-> ConvertValue(Bus(last_op.args)).bus,
                              canonical |-> TRUE, uppercase |-> FALSE,
                              text |-> <<>>]]
    /\ UNCHANGED <<ui_vars, data_vars, list_vars, view_vars, marker_vars, drag_vars>>

\* format_bus with radix 2
FormatBinary ==
    /\ last_op.op \in {"bus", "parse_binary_to_hex"}
    /\ \E uppercase \in BOOLEAN :
         last_op' = Rendered("format_binary", uppercase,
                             format_string_as_binary(CurrentBus, uppercase))
    /\ UNCHANGED <<ui_vars, data_vars, list_vars, view_vars, marker_vars, drag_vars>>

\* format_bus with radix 10
FormatDecimal ==
    /\ last_op.op \in {"bus", "parse_binary_to_hex"}
    /\ \E uppercase \in BOOLEAN :
         last_op' = Rendered("format_decimal", uppercase,
                             format_string_as_decimal(CurrentBus, uppercase))
    /\ UNCHANGED <<ui_vars, data_vars, list_vars, view_vars, marker_vars, drag_vars>>

NextRadix == Canonicalize \/ FormatBinary \/ FormatDecimal

SpecRadix == InitRadix /\ [][NextRadix]_vars

\* ------------------------------------------------ properties of the queries
\* the change log of a signal, empty for a signal the mapping does not know
LogOf(signal) == IF signal \in DOMAIN values THEN values[signal] ELSE <<>>

\* nondecreasing times in insertion order
Ordered(log) ==
    \A i, j \in 1..Len(log) : i < j => log[i][1] <= log[j][1]

MaxOf(S) == CHOOSE x \in S : \A y \in S : y <= x
MinOf(S) == CHOOSE x \in S : \A y \in S : x <= y

\* indices of the entries strictly before / at or before a time
IdxBefore(log, t) == {i \in 1..Len(log) : log[i][1] < t}
IdxAtOrBefore(log, t) == {i \in 1..Len(log) : log[i][1] <= t}

\* the subsequence of the entries inside [s, s + r), in log order
RECURSIVE Within(_, _, _)
Within(log, s, r) ==
    IF log = <<>> THEN <<>>
    ELSE LET rest == Within(Tail(log), s, r)
         IN IF s <= Head(log)[1] /\ Head(log)[1] < s + r
            THEN <<Head(log)>> \o rest ELSE rest

\* C3 as stated (for time-ordered logs, the data-model invariant the claim
\* presupposes): a displayed signal with a change before time_start gets a
\* first visible entry at time_start whose value is
\* get_value_at_marker(signal, time_start).
C3_CarryEqualsValueAtStart ==
    (/\ last_op.op = "get_visible_values"
     /\ Contains(displayed_signals, last_op.sig)
     /\ Ordered(LogOf(last_op.sig))
     /\ IdxBefore(LogOf(last_op.sig), time_start) # {})
    => /\ last_op.out # <<>>
       /\ last_op.out[1][1] = time_start
       /\ Some(last_op.out[1][2]) = get_value_at_marker(last_op.sig, time_start)

\* C3 amended: for a displayed signal with a time-ordered log and a change
\* before time_start, the first visible entry has time time_start and the
\* value of the last change strictly before time_start; that value is
\* get_value_at_marker(signal, time_start) when no change has time exactly
\* time_start.
C3_CarryForward ==
    (/\ last_op.op = "get_visible_values"
     /\ Contains(displayed_signals, last_op.sig)
     /\ Ordered(LogOf(last_op.sig))
     /\ IdxBefore(LogOf(last_op.sig), time_start) # {})
    => LET log == LogOf(last_op.sig)
           before == log[MaxOf(IdxBefore(log, time_start))][2]
       IN /\ last_op.out # <<>>
          /\ last_op.out[1] = <<time_start, before>>
          /\ (\A i \in 1..Len(log) : log[i][1] # time_start)
                => Some(last_op.out[1][2])
                     = get_value_at_marker(last_op.sig, time_start)

\* C3 witness: a carried entry was produced while a later change is visible
C3_Witness ==
    /\ last_op.op = "get_visible_values"
    /\ Contains(displayed_signals, last_op.sig)
    /\ Ordered(LogOf(last_op.sig))
    /\ IdxBefore(LogOf(last_op.sig), time_start) # {}
    /\ \A i \in 1..Len(LogOf(last_op.sig)) :
            LogOf(last_op.sig)[i][1] # time_start
    /\ Len(last_op.out) >= 2

\* C4: for a displayed signal with a time-ordered log get_visible_values is
\* the changes inside [time_start, time_start + time_range) in log order,
\* preceded by (time_start, v) for the last change v before time_start when
\* there is one; for a signal that is not displayed or unknown it is empty.
C4_VisibleValues ==
    last_op.op = "get_visible_values" =>
        LET log == LogOf(last_op.sig)
            before == IdxBefore(log, time_start)
            carried == IF before = {} THEN <<>>
                       ELSE << <<time_start, log[MaxOf(before)][2]>> >>
        IN /\ (Contains(displayed_signals, last_op.sig) /\ Ordered(log))
                => last_op.out = carried \o Within(log, time_start, time_range)
           /\ (~Contains(displayed_signals, last_op.sig)
               \/ last_op.sig \notin DOMAIN values)
                => last_op.out = <<>>

\* C4 witness: a displayed, ordered log with a change before the window, a
\* change inside it and a change at its right edge
C4_Witness ==
    /\ last_op.op = "get_visible_values"
    /\ Contains(displayed_signals, last_op.sig)
    /\ Ordered(LogOf(last_op.sig))
    /\ IdxBefore(LogOf(last_op.sig), time_start) # {}
    /\ \E i \in 1..Len(LogOf(last_op.sig)) :
            LogOf(last_op.sig)[i][1] = time_start + time_range
    /\ Len(last_op.out) = 2

\* C5: for a time-ordered log get_value_at_marker(signal, t) is the value of
\* the last entry with time <= t, and None when there is no such entry or
\* the signal is unknown.
C5_ValueAtMarker ==
    (last_op.op = "get_value_at_marker" /\ Ordered(LogOf(last_op.sig))) =>
        LET log == LogOf(last_op.sig)
            idx == IdxAtOrBefore(log, last_op.t)
        IN IF last_op.sig \notin DOMAIN values \/ idx = {}
           THEN last_op.out = None
           ELSE last_op.out = Some(log[MaxOf(idx)][2])

\* C5 witness: an entry at exactly t is returned although later entries exist
C5_Witness ==
    /\ last_op.op = "get_value_at_marker"
    /\ Ordered(LogOf(last_op.sig))
    /\ Len(LogOf(last_op.sig)) = 3
    /\ LogOf(last_op.sig)[2][1] = last_op.t
    /\ LogOf(last_op.sig)[3][1] > last_op.t
    /\ last_op.out = Some(LogOf(last_op.sig)[2][2])

\* indices i > first whose entry has time t and differs from its predecessor
\* (variant and payload equality)
TransitionIdx(log, t) ==
    {i \in 2..Len(log) : log[i][1] = t /\ log[i][2] # log[i - 1][2]}

\* the text of a value inside a transition: the variant name of a Binary,
\* the string of a Bus
TransitionText(v) == IF v.kind = "Binary" THEN DebugValue(v.bin) ELSE v.bus
Arrow(before, after) ==
    TransitionText(before) \o <<"-", ">">> \o TransitionText(after)

\* C6 as stated: get_transition_at_marker returns Some("before->after") iff
\* an entry that is not the first has time t and differs from its
\* predecessor, before/after being those two values; otherwise None.
C6_TransitionAlwaysArrow ==
    last_op.op = "get_transition_at_marker" =>
        LET log == LogOf(last_op.sig)
            idx == TransitionIdx(log, last_op.t)
        IN IF idx = {} THEN last_op.out = None
           ELSE \E i \in idx : last_op.out = Some(Arrow(log[i - 1][2], log[i][2]))

\* C6 amended: get_transition_at_marker returns Some iff an entry that is
\* not the first has time t and differs from its predecessor; the text is
\* taken from the first such entry and is "before->after" when the two
\* values are of the same variant and "???" when they are of different
\* variants; otherwise the result is None.
C6_TransitionAtMarker ==
    last_op.op = "get_transition_at_marker" =>
        LET log == LogOf(last_op.sig)
            idx == TransitionIdx(log, last_op.t)
        IN IF idx = {} THEN last_op.out = None
           ELSE LET i == MinOf(idx)
                IN last_op.out =
                     Some(IF log[i - 1][2].kind = log[i][2].kind
                          THEN Arrow(log[i - 1][2], log[i][2])
                          ELSE <<"?", "?", "?">>)

\* C6 witness: a transition between two Binary values was reported at the
\* second entry of a log whose first entry is earlier
C6_Witness ==
    /\ last_op.op = "get_transition_at_marker"
    /\ Len(LogOf(last_op.sig)) >= 2
    /\ LogOf(last_op.sig)[1][1] < last_op.t
    /\ LogOf(last_op.sig)[2][1] = last_op.t
    /\ last_op.out = Some(<<"V", "0", "-", ">", "V", "1">>)

\* ------------------------------------------- properties of the navigation
\* C1: from any view inside both bounds over a trace with max_time >= 10,
\* every sequence of zoom-in, zoom-out, pan-left and pan-right keeps
\* time_range >= 10 and time_start + time_range <= max_time.
C1_ZoomBounds ==
    /\ time_range >= 10
    /\ time_start + time_range <= max_time

\* C1 witness: a zoom-out that had to move the window back inside the trace
C1_Witness ==
    /\ last_op.op = "zoom_out"
    /\ time_start > 0
    /\ time_range < max_time
    /\ time_start + time_range = max_time

\* ----------------------------------------------- properties of the loading
\* C2: when load_vcd_file fails, the loaded waveform data (signal list,
\* change logs, max_time), the displayed signal list and the view window are
\* what they were before the call
C2_FailedLoadLeavesData ==
    [][last_op'.op = "load_vcd_file" /\ ~last_op'.ok
       => UNCHANGED <<signals, values, max_time, displayed_signals,
                      time_start, time_range>>]_vars

\* ---------------------------------------------- properties of the commands
\* the number a command was invoked with, when its first argument is the
\* numeral of one of `nums`
NumericArg(op, nums) ==
    IF last_op.op = op /\ \E n \in nums : last_op.args = <<DecString(n)>>
    THEN Some(CHOOSE n \in nums : last_op.args = <<DecString(n)>>)
    ELSE None

\* C7: whenever goto, zoom or marker returns an error, time_start,
\* time_range, the two markers and the saved markers keep their values
C7_ErrorLeavesState ==
    [][last_op'.op \in {"goto", "zoom", "marker"} /\ ~last_op'.ok
       => UNCHANGED <<time_start, time_range, primary_marker,
                      secondary_marker, saved_markers>>]_vars

\* C7 witness: a marker add was refused for a name that is already saved
C7_Witness ==
    /\ last_op.op = "marker"
    /\ ~last_op.ok
    /\ last_op.out = "Marker already exists"
    /\ Len(last_op.args) >= 2
    /\ \E i \in 1..Len(saved_markers) : saved_markers[i].name = last_op.args[2]

\* C8: goto(t) returns an error exactly when t > max_time; otherwise
\* time_start becomes t - time_range/2, or 0 when t <= time_range/2, and
\* time_range is unchanged
C8_Goto ==
    [][NumericArg("goto", GotoTimes)' # None
       => LET t == NumericArg("goto", GotoTimes)'[1]
          IN /\ ~last_op'.ok <=> t > max_time
             /\ t <= max_time
                => /\ time_start' = IF t <= time_range \div 2 THEN 0
                                    ELSE t - time_range \div 2
                   /\ time_range' = time_range]_vars

\* C8 witness: a goto to a time past half of the window moved the window
C8_Witness ==
    /\ NumericArg("goto", GotoTimes) # None
    /\ last_op.ok
    /\ time_range >= 10
    /\ time_start > 0
    /\ time_start = NumericArg("goto", GotoTimes)[1] - time_range \div 2

\* C9: after a successful goto in a state with max_time >= time_range the
\* window ends at or before max_time
C9_GotoWindowInTrace ==
    [][last_op'.op = "goto" /\ last_op'.ok /\ max_time >= time_range
       => time_start' + time_range' <= max_time']_vars

\* C10: after a successful zoom <n>, time_range = max_time / n and the
\* window ends at or before max_time
C10_ZoomWindowInTrace ==
    [][NumericArg("zoom", ZoomFactors)' # None /\ last_op'.ok
       => /\ time_range' = max_time \div NumericArg("zoom", ZoomFactors)'[1]
          /\ time_start' + time_range' <= max_time]_vars

\* -------------------------------------------- properties of the navigation
\* C11: after every navigation operation (zoom-in, zoom-out, zoom-full,
\* zoom <factor>, goto, pan-left, pan-right) time_range >= 10
C11_MinimumRange ==
    [][\/ last_op'.op \in {"zoom_in", "zoom_out", "zoom_full", "pan_left",
                           "pan_right"}
       \/ last_op'.op \in {"goto", "zoom"} /\ last_op'.ok
       => time_range' >= 10]_vars

\* C12: pan-left sets time_start to max(time_start - time_range/4, 0) and
\* pan-right to min(time_start + time_range/4, max_time - time_range), so
\* that time_start is in [0, max_time - time_range] afterwards; time_range
\* is unchanged; at the two ends the window does not move
C12_PanFormulas ==
    [][/\ last_op'.op = "pan_left"
          => /\ time_start' = Max2(time_start - time_range \div 4, 0)
             /\ time_start' <= max_time - time_range
             /\ time_range' = time_range
       /\ last_op'.op = "pan_right"
          => /\ time_start' = Min2(time_start + time_range \div 4,
                                   max_time - time_range)
             /\ 0 <= time_start'
             /\ time_start' <= max_time - time_range
             /\ time_range' = time_range]_vars

\* C12 as the code has it: pan-left subtracts time_range/4 saturating at 0;
\* pan-right acts only while time_start < max_time and then takes
\* min(time_start + time_range/4, max_time - time_range saturating at 0);
\* time_range is unchanged; from a window inside the trace the window stays
\* inside the trace, and it does not move at the two ends
C12_Pan ==
    [][/\ last_op'.op = "pan_left"
          => /\ time_start' = Max2(time_start - time_range \div 4, 0)
             /\ time_range' = time_range
             /\ time_start = 0 => time_start' = 0
       /\ last_op'.op = "pan_right"
          => /\ time_start' =
                  IF time_start < max_time
                  THEN Min2(time_start + time_range \div 4,
                            Max2(max_time - time_range, 0))
                  ELSE time_start
             /\ time_range' = time_range
             /\ max_time >= time_range /\ time_start = max_time - time_range
                => time_start' = time_start
       /\ /\ last_op'.op \in {"pan_left", "pan_right"}
          /\ time_start + time_range <= max_time
          => time_start' + time_range' <= max_time]_vars

\* C12 witness: pan-right stopped a window of the loaded trace at its end
C12_Witness ==
    /\ last_op.op = "pan_right"
    /\ max_time = TraceEndA
    /\ time_range >= 10
    /\ time_start > 0
    /\ time_start = max_time - time_range

\* C13: zoom-in sets time_range to max(time_range/2, 10), zoom-out to
\* min(time_range*2, max_time); when the new start is clamped neither at 0
\* nor at max_time the window centre time_start + time_range/2 is preserved
C13_ZoomCentre ==
    [][LET center == time_start + time_range \div 2
       IN /\ last_op'.op = "zoom_in"
             => /\ time_range' = Max2(time_range \div 2, 10)
                /\ center >= time_range' \div 2
                   => time_start' + time_range' \div 2 = center
          /\ last_op'.op = "zoom_out"
             => /\ time_range' = Min2(time_range * 2, max_time)
                /\ /\ center >= time_range' \div 2
                   /\ center - time_range' \div 2 + time_range' <= max_time
                   => time_start' + time_range' \div 2 = center]_vars

\* C13 witness: a zoom-out doubled the window to 20 strictly inside the trace
C13_Witness ==
    /\ last_op.op = "zoom_out"
    /\ time_range = 20
    /\ time_start > 0
    /\ time_start + time_range < max_time

\* ---------------------------------------------- properties of the mouse
\* the drag-select the events since the press ask for: some drag event at
\* least 3 columns from the press column, and the press and the last drag
\* columns more than 5 apart
DragAsked ==
    /\ gesture.press # <<>>
    /\ gesture.far
    /\ Abs(gesture.press[1] - gesture.last[1]) > 5

\* the window of the two recorded times
WindowOfGesture(ts, tr) ==
    LET t1 == gesture.press[2]
        t2 == gesture.last[2]
    IN /\ ts = Min2(t1, t2)
       /\ tr = Max2(Abs(t1 - t2), 1)

MouseOps == {"mouse_down", "mouse_shift_down", "mouse_drag", "mouse_up",
             "mouse_outside"}

\* C14: a release in the waveform area commits a new window if and only if
\* a drag was detected since the press and the press and last-drag columns
\* differ by more than 5; the window is min(t1, t2), max(|t1 - t2|, 1); in
\* every other press/drag/release sequence the window is unchanged
C14_DragCommitSincePress ==
    [][/\ last_op'.op = "mouse_up"
          => IF DragAsked THEN WindowOfGesture(time_start', time_range')
             ELSE UNCHANGED view_vars
       /\ last_op'.op \in MouseOps \ {"mouse_up"}
          => UNCHANGED view_vars]_vars

\* C14 with the interruption: the release commits if and only if the drag
\* was asked for and no mouse event outside the waveform area and the
\* signal list came between the press and the release
C14_DragCommit ==
    [][/\ last_op'.op = "mouse_up"
          => IF DragAsked /\ ~gesture.left
             THEN /\ WindowOfGesture(time_start', time_range')
                  /\ last_op'.out = "zoom"
             ELSE /\ UNCHANGED view_vars
                  /\ last_op'.out # "zoom"
       /\ last_op'.op \in MouseOps \ {"mouse_up"}
          => UNCHANGED view_vars]_vars

\* C14 witness: a press in column 1 and a drag to column 7 of the window
\* 0..50 were committed as the window 5..35
C14_Witness ==
    /\ last_op.op = "mouse_up"
    /\ last_op.out = "zoom"
    /\ time_start = 5
    /\ time_range = 30

\* round(x * time_range / width) in exact arithmetic, halves rounding up
ExactOffset(x, width) == (2 * x * time_range + width) \div (2 * width)

NavigationStep ==
    \/ last_op'.op \in {"pan_left", "pan_right", "zoom_in", "zoom_out",
                        "zoom_full", "goto", "zoom"}
    \/ last_op'.op = "mouse_up" /\ last_op'.out = "zoom"

ParsedLines == last_op.args
Parsed == last_op.out

\* the position of the first $enddefinitions line, Len + 1 when there is none
EndDefsAt(lines) ==
    LET E == {i \in 1..Len(lines) : lines[i].k = "$enddefinitions"}
    IN IF E = {} THEN Len(lines) + 1 ELSE MinOf(E)

\* the time of the last time stamp line among lines[from..i-1], 0 if none
TimeBefore(lines, from, i) ==
    LET T == {j \in from..(i - 1) : lines[j].k = "#"}
    IN IF T = {} THEN 0 ELSE lines[MaxOf(T)].time

IsDeclared(lines, id) ==
    \E j \in 1..Len(lines) : lines[j].k = "$var" /\ lines[j].id = id

\* the value changes that are recorded: after $enddefinitions, of a
\* declared identifier
RecordedChanges(lines) ==
    {i \in 1..Len(lines) : /\ lines[i].k = "change"
                           /\ i > EndDefsAt(lines)
                           /\ IsDeclared(lines, lines[i].id)}

RECURSIVE Ascending(_)
Ascending(S) ==
    IF S = {} THEN <<>> ELSE <<MinOf(S)>> \o Ascending(S \ {MinOf(S)})

LogTimes(log) == [k \in 1..Len(log) |-> log[k][1]]
NonDecreasing(times) ==
    \A k \in 1..(Len(times) - 1) : times[k] <= times[k + 1]

\* the time stamps of lines[from..]
TimeStampsFrom(lines, from) ==
    LET idx == Ascending({i \in from..Len(lines) : lines[i].k = "#"})
    IN [k \in 1..Len(idx) |-> lines[idx[k]].time]

\* the times the recorded changes are expected at, when the time stamps
\* count from line `from`; the files change one declared identifier, so its
\* log holds every recorded change
ExpectedTimes(lines, from) ==
    LET idx == Ascending(RecordedChanges(lines))
    IN [k \in 1..Len(idx) |-> TimeBefore(lines, from, idx[k])]

\* C17: for an input whose time stamp lines are in nondecreasing order,
\* every change log has nondecreasing times and every logged time is that
\* of the most recent time stamp line before the change (0 if none)
C17_LogTimesFollowStamps ==
    last_op.op = "parse_vcd_file"
    /\ NonDecreasing(TimeStampsFrom(ParsedLines, 1))
    => \A n \in DOMAIN Parsed.values :
         /\ NonDecreasing(LogTimes(Parsed.values[n]))
         /\ LogTimes(Parsed.values[n]) = ExpectedTimes(ParsedLines, 1)

\* C17 with the time stamps that count: every logged time is that of the
\* most recent time stamp line after $enddefinitions and before the change
\* (0 if none), and when those time stamps are in nondecreasing order every
\* change log has nondecreasing times
C17_LogTimes ==
    last_op.op = "parse_vcd_file"
    => LET from == EndDefsAt(ParsedLines) + 1
       IN \A n \in DOMAIN Parsed.values :
            /\ LogTimes(Parsed.values[n]) = ExpectedTimes(ParsedLines, from)
            /\ NonDecreasing(TimeStampsFrom(ParsedLines, from))
               => NonDecreasing(LogTimes(Parsed.values[n]))

\* C17 witness: a signal with changes logged at the times 1 and 2
C17_Witness ==
    /\ last_op.op = "parse_vcd_file"
    /\ \E n \in DOMAIN Parsed.values :
         LogTimes(Parsed.values[n]) = <<1, 2>>

\* C18: max_time is the largest of the time stamp lines after
\* $enddefinitions (0 if there are none), whatever their order
C18_MaxTimeIsLargest ==
    last_op.op = "parse_vcd_file"
    => LET from == EndDefsAt(ParsedLines) + 1
           T == {i \in from..Len(ParsedLines) : ParsedLines[i].k = "#"}
       IN Parsed.max_time =
            IF T = {} THEN 0 ELSE MaxOf({ParsedLines[i].time : i \in T})

\* the full names of the $var lines in the order they are first seen
RECURSIVE DeclaredNames(_, _, _)
DeclaredNames(lines, scope, names) ==
    IF lines = <<>> THEN names
    ELSE LET line == Head(lines)
             name == FullName(scope, line.name)
         IN CASE line.k = "$var" ->
                   DeclaredNames(Tail(lines), scope,
                                 IF Contains(names, name) THEN names
                                 ELSE Append(names, name))
              [] line.k = "$scope" ->
                   DeclaredNames(Tail(lines), Append(scope, line.name), names)
              [] line.k = "$upscope" /\ scope # <<>> ->
                   DeclaredNames(Tail(lines),
                                 SubSeq(scope, 1, Len(scope) - 1), names)
              [] OTHER -> DeclaredNames(Tail(lines), scope, names)

\* C19: the signal list holds the declared signals in first-seen order, and
\* every signal of the list has a change log in the mapping, which is empty
\* when no value change for that signal occurred
C19_SignalsHaveLogs ==
    last_op.op = "parse_vcd_file"
    => /\ Parsed.signals = DeclaredNames(ParsedLines, <<>>, <<>>)
       /\ \A i \in 1..Len(Parsed.signals) :
            /\ Parsed.signals[i] \in DOMAIN Parsed.values
            /\ RecordedChanges(ParsedLines) = {}
               => Parsed.values[Parsed.signals[i]] = <<>>

\* the file without the time stamp and value change lines that come before
\* $enddefinitions and without the value changes of undeclared identifiers
Stripped(lines) ==
    LET dropped(i) ==
            \/ lines[i].k \in {"#", "change"} /\ i < EndDefsAt(lines)
            \/ lines[i].k = "change" /\ ~IsDeclared(lines, lines[i].id)
        idx == Ascending({i \in 1..Len(lines) : ~dropped(i)})
    IN [k \in 1..Len(idx) |-> lines[idx[k]]]

\* C20: time stamp lines and value change lines before $enddefinitions, and
\* value changes of an undeclared identifier after it, have no effect on
\* the current time, on max_time or on any change log: the file parses to
\* the same data as the file without them
C20_IgnoredLines ==
    last_op.op = "parse_vcd_file"
    => Parsed = parse_vcd_file(VcdFile(Stripped(ParsedLines)))

\* C20 witness: a time stamp and a change of a declared signal before
\* $enddefinitions, an undeclared change and a declared change after it,
\* parsed to a single change at time 0 and max_time 0
C20_Witness ==
    /\ last_op.op = "parse_vcd_file"
    /\ \E i, j, k, m \in 1..Len(ParsedLines) :
         /\ i < EndDefsAt(ParsedLines) /\ ParsedLines[i] = TimeLine(2)
         /\ j < EndDefsAt(ParsedLines) /\ j > i
         /\ ParsedLines[j] = ChangeLine(Binary("V1"), "!")
         /\ k > EndDefsAt(ParsedLines)
         /\ ParsedLines[k] = ChangeLine(Binary("V0"), "?")
         /\ m > EndDefsAt(ParsedLines)
         /\ ParsedLines[m] = ChangeLine(Binary("V1"), "!")
    /\ Parsed.max_time = 0
    /\ \E n \in DOMAIN Parsed.values : LogTimes(Parsed.values[n]) = <<0>>

\* ------------------------------------------ properties of the Bus values
\* the raw string of the change of the parsed file and the stored value
RawBus == ParsedLines[4].value.bus
StoredBus == Parsed.values["data"][1][2].bus

\* h is the uppercase hexadecimal form of the bit string: ceil(n/4) digits
\* that denote the same number
IsHexOf(h, bits) ==
    /\ Len(h) = (Len(bits) + 3) \div 4
    /\ \A i \in 1..Len(h) : \E d \in 1..16 : h[i] = HexDigits[d]
    /\ FoldHex(h, 0) = FoldBits(bits, 0)

\* C21: a Bus change of 0/1 characters only is stored as its uppercase
\* hexadecimal form of ceil(n/4) digits; a Bus change with an x or z bit
\* and a real change "r<literal>" are stored as the raw string
C21_BusCanonicalForm ==
    last_op.op = "parse_vcd_file"
    => /\ DOMAIN Parsed.values = {"data"}
       /\ Len(Parsed.values["data"]) = 1
       /\ Parsed.values["data"][1][2].kind = "Bus"
       /\ IF AllBinaryDigits(RawBus) THEN IsHexOf(StoredBus, RawBus)
          ELSE StoredBus = RawBus

\* C21 witness: the five bits 10110 were parsed and stored as "16"
C21_Witness ==
    /\ last_op.op = "parse_vcd_file"
    /\ RawBus = <<"1", "0", "1", "1", "0">>
    /\ StoredBus = <<"1", "6">>

\* ------------------------------------- properties of the radix formatter
\* the bit string padded on the left with 0 to a multiple of four bits
NibblePadded(bits) ==
    [i \in 1..((4 - (Len(bits) % 4)) % 4) |-> "0"] \o bits

\* the binary rendering of the canonical form is the padded bit string
RendersNibblePadded ==
    last_op.out.text = NibblePadded(last_op.args)

\* the binary rendering of the canonical form denotes the number of the bits
RendersSameNumber ==
    /\ AllBinaryDigits(last_op.out.text)
    /\ FoldBits(last_op.out.text, 0) = FoldBits(last_op.args, 0)

\* C22: a bit string over {0,1} that is converted to its canonical hex form
\* and rendered in binary comes back padded on the left to the nibble
\* boundary, and the rendered string denotes the same number
C22_BinaryRoundTrip ==
    (last_op.op = "format_binary" /\ last_op.out.canonical)
    => (RendersNibblePadded /\ RendersSameNumber)

\* the number denoted by a string of decimal digits
RECURSIVE FoldDecimal(_, _)
FoldDecimal(str, acc) ==
    IF str = <<>> THEN acc
    ELSE FoldDecimal(Tail(str), acc * 10 + HexDigitValue(Head(str)))

\* text is the base-10 numeral of n
IsNumeralOf(text, n) ==
    /\ text # <<>>
    /\ \A i \in 1..Len(text) : HexDigitValue(text[i]) \in 0..9
    /\ Len(text) > 1 => text[1] # "0"
    /\ FoldDecimal(text, 0) = n

OnlyHexDigits(str) == \A i \in 1..Len(str) : HexDigitValue(str[i]) >= 0
HasXZ(str) == \E i \in 1..Len(str) : str[i] \in {"x", "X", "z", "Z"}

\* C23: the decimal rendering of a non-empty Bus string of hexadecimal
\* digits (its value fits in 64 bits) is the base-10 numeral of that value
\* and is never empty
C23_DecimalOfHex ==
    (/\ last_op.op = "format_decimal"
     /\ OnlyHexDigits(last_op.out.bus)
     /\ Len(last_op.out.bus) <= 16)
    => IsNumeralOf(last_op.out.text, FoldHex(last_op.out.bus, 0))

\* C24: the decimal rendering of a Bus string with an x or z character is
\* the string itself, character by character, with the case of x and z
\* normalized
C24_DecimalOfUndefined ==
    (last_op.op = "format_decimal" /\ HasXZ(last_op.out.bus))
    => last_op.out.text =
          [i \in 1..Len(last_op.out.bus) |->
              XZCase(last_op.out.bus[i], last_op.out.uppercase)]

\* ---------------------------------------------- properties of the scopes
\* the $scope line at j is still open in front of line i: no $upscope
\* between them has closed it
OpenAt(lines, j, i) ==
    /\ j < i
    /\ lines[j].k = "$scope"
    /\ \A m \in (j + 1)..(i - 1) :
         Cardinality({u \in (j + 1)..m : lines[u].k = "$upscope"})
         <= Cardinality({u \in (j + 1)..m : lines[u].k = "$scope"})

\* the names seq[1].seq[2]. ... .name, built from the left
RECURSIVE Dotted(_, _, _)
Dotted(acc, seq, name) ==
    IF seq = <<>> THEN acc \o name
    ELSE Dotted(acc \o Head(seq) \o ".", Tail(seq), name)

\* the name that the declaration at line i is to be registered with
ScopedName(lines, i) ==
    LET open == Ascending({j \in 1..Len(lines) : OpenAt(lines, j, i)})
    IN Dotted("", [k \in 1..Len(open) |-> lines[open[k]].name], lines[i].name)

\* C25: a $var declared while the scopes s1..sk are open is registered as
\* s1.s2. ... .sk.name; $upscope closes the scope opened last, and with no
\* open scope it has no effect and the parse does not fail
C25_ScopedNames ==
    last_op.op = "parse_vcd_file"
    => /\ Parsed.ok
       /\ Parsed.signals = <<ScopedName(ParsedLines, Len(ParsedLines))>>

\* C25 witness: a declaration after both scopes were closed again is
\* registered as s, and one after a $upscope that found no open scope and
\* two further $scope lines as b.a.s
C25_Witness ==
    /\ last_op.op = "parse_vcd_file"
    /\ ParsedLines = <<ScopeLine("a"), ScopeLine("b"), VarLine("!", "s"),
                       Line("$upscope"), Line("$upscope"), VarLine("!", "s")>>
       \/ ParsedLines = <<ScopeLine("a"), Line("$upscope"), Line("$upscope"),
                          ScopeLine("b"), ScopeLine("a"), VarLine("!", "s")>>
    /\ Parsed.signals \in {<<"s">>, <<"b.a.s">>}

\* ------------------------------------------ properties of the identifiers
\* C26: a well-formed $var line with an identifier of one or more
\* characters registers it: the signal is in the signal list and the scalar
\* or vector change that carries the identifier is appended to its log
C26_IdentifierRegistered ==
    last_op.op = "parse_vcd_file"
    => /\ Parsed.signals = <<"sig">>
       /\ "sig" \in DOMAIN Parsed.values
       /\ LogTimes(Parsed.values["sig"]) = <<1>>

\* ------------------------------------------ properties of the command line
\* the command state in front of the last key of Command mode
Before == last_op.args
HistoryKeys == {"previous_history", "next_history"}

\* C27: previous_history moves one entry towards the oldest and stays on
\* the oldest; next_history moves one entry towards the newest, and on the
\* newest entry it clears the input buffer
C27_HistoryNavigation ==
    (last_op.op \in HistoryKeys /\ Before.history_index # None)
    => LET i == Before.history_index[1]
           newest == Len(Before.history) - 1
       IN IF last_op.op = "previous_history"
          THEN IF i > 0
               THEN /\ command_state.history_index = Some(i - 1)
                    /\ command_state.input_buffer = Before.history[i]
               ELSE /\ command_state.history_index = Some(0)
                    /\ command_state.input_buffer = Before.input_buffer
          ELSE IF i < newest
               THEN /\ command_state.history_index = Some(i + 1)
                    /\ command_state.input_buffer = Before.history[i + 2]
               ELSE command_state.input_buffer = <<>>

CommandKeys ==
    {"insert", "delete", "backspace", "move_cursor_left", "move_cursor_right",
     "move_cursor_start", "move_cursor_end", "previous_history",
     "next_history", "execute", "enter_command_mode", "enter_normal_mode"}

\* C28: the cursor stays inside the input line after every key of the
\* command line; backspace at position 0 and delete at the end leave the
\* input line unchanged
C28_CursorInBuffer ==
    /\ command_state.cursor_position \in 0..Len(command_state.input_buffer)
    /\ (last_op.op = "backspace" /\ Before.cursor_position = 0)
       => command_state.input_buffer = Before.input_buffer
    /\ (/\ last_op.op = "delete"
        /\ Before.cursor_position = Len(Before.input_buffer))
       => command_state.input_buffer = Before.input_buffer

\* C28 witness: delete was pressed at the end of a line of two characters
\* that was recalled from the history after a command was executed
C28_Witness ==
    /\ last_op.op = "delete"
    /\ Len(Before.input_buffer) = 2
    /\ Before.cursor_position = 2
    /\ Before.history_index # None
    /\ command_state.cursor_position = 2

\* ------------------------------------------- properties of the arrow keys
\* Down moves the selection forward by one unless it is on the last
\* displayed signal, Up moves it back by one unless it is 0, neither wraps;
\* with no displayed signal the selection stays
UpDownMoveByOne ==
    /\ last_op.op = "select_down"
       => selected_signal =
            IF last_op.t + 1 < Len(displayed_signals) THEN last_op.t + 1
            ELSE last_op.t
    /\ last_op.op = "select_up"
       => selected_signal =
            IF displayed_signals # <<>> /\ last_op.t > 0 THEN last_op.t - 1
            ELSE last_op.t

ArrowKeyStep ==
    last_op'.op \in {"select_up", "select_down", "pan_left", "pan_right"}

\* C29: Down and Up move the selection by exactly one and do not wrap at
\* the ends; with an empty list of displayed signals the Up, Down, Left and
\* Right keys change nothing
C29_ArrowKeysEmptyListNoChange ==
    /\ []UpDownMoveByOne
    /\ [][(ArrowKeyStep /\ displayed_signals = <<>>)
          => UNCHANGED <<data_vars, list_vars, view_vars, marker_vars,
                         drag_vars, ui_vars>>]_vars

\* C29 as the code has it: with an empty list of displayed signals Up and
\* Down change nothing, and Left and Right change nothing but time_start
C29_ArrowKeys ==
    /\ []UpDownMoveByOne
    /\ [][(ArrowKeyStep /\ displayed_signals = <<>>)
          => /\ UNCHANGED <<data_vars, list_vars, time_range, marker_vars,
                            drag_vars, ui_vars>>
             /\ last_op'.op \in {"select_up", "select_down"}
                => UNCHANGED time_start]_vars

\* C29 witness: Down was pressed on the last of two displayed signals and
\* the selection stayed there
C29_Witness ==
    /\ last_op.op = "select_down"
    /\ last_op.t = 1
    /\ Len(displayed_signals) = 2
    /\ selected_signal = 1

\* ----------------------------------------- properties of the signal finder
\* the position of a signal in the signal list of the waveform
PositionIn(seq, x) == CHOOSE i \in 1..Len(seq) : seq[i] = x

\* the displayed signals are the selected signals of the signal list, each
\* once, in the order of the signal list
AcceptedInListOrder ==
    /\ {displayed_signals[i] : i \in 1..Len(displayed_signals)}
       = {sg \in fuzzy.selected_signals : Contains(signals, sg)}
    /\ \A i, j \in 1..Len(displayed_signals) :
         i < j => PositionIn(signals, displayed_signals[i])
                  < PositionIn(signals, displayed_signals[j])

\* C30: after Enter in the finder the displayed signals are exactly the
\* selected signals of the waveform's signal list, in the order of that
\* list, and the mode is Normal; Esc leaves the displayed signals unchanged
\* and the mode is Normal
C30_FinderAccept ==
    /\ [](last_op.op = "fuzzy_accept"
          => (mode = "Normal" /\ AcceptedInListOrder))
    /\ [][last_op'.op = "fuzzy_cancel"
          => (mode' = "Normal" /\ UNCHANGED displayed_signals)]_vars

\* C30 witness: both signals of the file were selected and accepted, and
\* the clock is displayed in front of the data bus as in the file
C30_Witness ==
    /\ last_op.op = "fuzzy_accept"
    /\ mode = "Normal"
    /\ fuzzy.selected_signals = {"top.clk", "top.data"}
    /\ displayed_signals = <<"top.clk", "top.data">>

\* C31: the execute key on a non-empty input line leaves Command mode,
\* appends the line to the history, records a result and clears the input
\* buffer; on an empty line nothing changes and the mode stays Command; the
\* enter-normal-mode key ends in Normal mode with an empty input buffer
C31_ExecuteKey ==
    /\ last_op.op = "execute"
       => IF Before.input_buffer # <<>>
          THEN /\ mode = "Normal"
               /\ command_state.history
                  = Append(Before.history, Before.input_buffer)
               /\ command_state.result_message # None
               /\ command_state.result_is_error
                  = (Before.input_buffer # <<"z", "f">>)
               /\ command_state.input_buffer = <<>>
          ELSE /\ mode = "Command"
               /\ command_state = Before
    /\ last_op.op = "enter_normal_mode"
       => /\ mode = "Normal"
          /\ command_state.input_buffer = <<>>

\* C31 witness: the line zf was executed with success after an unknown
\* command had been recorded in the history
C31_Witness ==
    /\ last_op.op = "execute"
    /\ Before.input_buffer = <<"z", "f">>
    /\ Len(Before.history) = 1
    /\ Len(command_state.history) = 2
    /\ ~command_state.result_is_error
    /\ mode = "Normal"

\* C36: after key events, clicks in the signal list, finder accepts and file
\* loads, a non-empty displayed_signals has selected_signal inside it
C36_SelectionInList ==
    displayed_signals # <<>> => selected_signal < Len(displayed_signals)

\* C36 witness: with two displayed signals a click on the second row moved
\* the selection from the first signal to the second
C36_Witness ==
    /\ last_op.op = "signal_list_click"
    /\ last_op.t = 0
    /\ Len(displayed_signals) = 2
    /\ selected_signal = 1

\* the list and the selection in front of a Shift+Up or Shift+Down
ListBefore == last_op.args
SelectedBefore == last_op.t

\* one sequence is a rearrangement of the other
IsPermutation(l1, l2) ==
    /\ Len(l1) = Len(l2)
    /\ \E f \in [1..Len(l1) -> 1..Len(l1)] :
         /\ \A i, j \in 1..Len(l1) : f[i] = f[j] => i = j
         /\ \A i \in 1..Len(l1) : l1[i] = l2[f[i]]

\* C37: Shift+Up and Shift+Down swap the selected signal with its
\* neighbour: the list is a permutation of the list before, the selection
\* is on the same name as before, and at the first (Shift+Up) or last
\* (Shift+Down) position nothing changes
C37_MoveSignal ==
    last_op.op \in {"move_up", "move_down"}
    => LET step == IF last_op.op = "move_up" THEN 0 - 1 ELSE 1
           at_end == IF last_op.op = "move_up" THEN SelectedBefore = 0
                     ELSE SelectedBefore = Len(ListBefore) - 1
       IN /\ IsPermutation(displayed_signals, ListBefore)
          /\ SelectedBefore < Len(ListBefore)
             => /\ selected_signal < Len(displayed_signals)
                /\ displayed_signals[selected_signal + 1]
                   = ListBefore[SelectedBefore + 1]
          /\ at_end
             => /\ displayed_signals = ListBefore
                /\ selected_signal = SelectedBefore
          /\ ListBefore # <<>> /\ ~at_end
             => /\ selected_signal = SelectedBefore + step
                /\ displayed_signals
                   = Swap(ListBefore, SelectedBefore + 1, selected_signal + 1)

\* C37 witness: Shift+Down moved the first of two displayed signals to the
\* second place and the selection went with it
C37_Witness ==
    /\ last_op.op = "move_down"
    /\ SelectedBefore = 0
    /\ selected_signal = 1
    /\ Len(displayed_signals) = 2
    /\ displayed_signals[2] = ListBefore[1]
    /\ displayed_signals[1] = ListBefore[2]

\* C32: in every state reached by mouse events is_dragging implies that
\* drag_start and drag_current are both set; after a left release inside
\* the waveform area and after any mouse event outside the waveform and
\* the signal list, drag_start = None, drag_current = None and is_dragging
\* is false
C32_DragState ==
    /\ is_dragging => drag_start # None /\ drag_current # None
    /\ last_op.op \in {"mouse_up", "mouse_outside"}
       => /\ drag_start = None
          /\ drag_current = None
          /\ ~is_dragging

\* C32 witness: a press in column 0 was dragged to column 4, so that a drag
\* is detected and both positions are set
C32_Witness ==
    /\ last_op.op = "mouse_drag"
    /\ is_dragging
    /\ drag_start # None /\ drag_start[1][1] = 0
    /\ drag_current # None /\ drag_current[1][1] = 4

\* C33: in every reachable view state, pan-right never decreases
\* time_start and pan-left never increases it
C33_PanMonotone ==
    [][/\ last_op'.op = "pan_right" => time_start' >= time_start
       /\ last_op'.op = "pan_left" => time_start' <= time_start]_vars

\* the window ends at the end of the trace / begins at time 0
AtRightEdge == time_start = max_time - time_range
AtLeftEdge == time_start = 0

\* C34: from every reachable view state with max_time >= time_range,
\* panning right over and over eventually reaches
\* time_start = max_time - time_range, and panning left over and over
\* eventually reaches time_start = 0
C34_PanReachesEdge ==
    /\ (<>[][PanRight]_vars /\ WF_vars(PanRight))
       => <>[](max_time >= time_range => AtRightEdge)
    /\ (<>[][PanLeft]_vars /\ WF_vars(PanLeft))
       => <>[](max_time >= time_range => AtLeftEdge)

\* C35: a committed drag-select puts the new window
\* [time_start, time_start + time_range) inside the window in effect when
\* the press and the drag position were recorded
C35_DragContained ==
    [][last_op'.op = "mouse_up" /\ last_op'.out = "zoom"
       => /\ time_start' >= time_start
          /\ time_start' + time_range' <= time_start + time_range]_vars

\* C38: after marker add commands, marker placement clicks, navigation and
\* file loads, the time of every saved marker is at most max_time of the
\* loaded waveform
C38_SavedMarkersInTrace ==
    \A i \in 1..Len(saved_markers) : saved_markers[i].time <= max_time

====
